---- MODULE Spec2Model ----
(***************************************************************************)
(* Verification model of the data-structures repository.                   *)
(*                                                                         *)
(* Part 1: Heap_APQ (src/heapAPQ.py), the adaptable priority queue kept as *)
(* an array-based binary min-heap of Element objects.                      *)
(*                                                                         *)
(* An Element object is identified by a handle (an object identity).  The  *)
(* functions key, value and index hold the _key, _value and _index fields  *)
(* of the Element objects the queue references; their common domain is the *)
(* set of those objects.  body is the Python list _body, kept 0-based as   *)
(* in the source, so that the index arithmetic of the source is            *)
(* unchanged.  An Element that leaves the queue is dropped from the        *)
(* domain (its handle is invalid from then on) and its identity may be     *)
(* taken by a later Element.                                               *)
(*                                                                         *)
(* Part 2: Graph and DirectedGraph (src/graphs/graph.py, directed.py), the *)
(* adjacency maps, and Dijkstra.dijkstra (src/graphs/Dijkstra.py), whose   *)
(* open queue is the Heap_APQ of part 1.  Vertex and Edge objects are      *)
(* identified by object identities as Element objects are.  A Python dict  *)
(* keyed by vertices of one graph is a function; an adjacency dict, whose  *)
(* iteration order dijkstra depends on, is a sequence of <<key, value>>    *)
(* pairs in insertion order.                                               *)
(***************************************************************************)
EXTENDS Integers, Sequences, FiniteSets, TLC

\* ---------------------------------------------------------------- bounds
\* Spec: the largest queue, with every call and its result recorded
MaxSize == 4
\* HeapSpec: the largest queue, calls not recorded
DeepSize == 6
\* SortSpec: the largest number of keys added
SortMaxLen == 5

\* object identities: more than any queue of the model holds
Handles == 1..(MaxSize + DeepSize + SortMaxLen)
\* keys are only compared with one another
Keys == {1, 2, 3}
DeepKeys == {1, 2}
\* payloads: _value is opaque to the queue, which stores it and returns it
Values == {100 + e : e \in Handles}
\* the keys of the extraction-order example
SortKeys == {1, 3, 4, 5, 8}

\* GraphSpec: the largest number of vertices of a graph
MaxVertices == 2
\* DijkstraSpec, AnyWeightSpec: the largest number of edges of a graph
MaxRoads == 4
\* TsortSpec: the largest number of add_edge calls that build a graph
TsortEdges == 3
\* MapSpec: the largest number of cells of a table
MaxSpace == 8
\* QueueSpec: the largest number of enqueue calls
MaxEnqueues == 24
\* QueueV2.__init__: the number of cells of a new queue
InitialCells == 10
\* ListSpec: the largest number of nodes in use and the largest size
MaxNodes == 3
MaxCount == 4

VARIABLES
    body,     \* Heap_APQ._body : [0..size-1 -> Handles]
    size,     \* Heap_APQ._size
    key,      \* Element._key   of every element of the queue
    value,    \* Element._value of every element of the queue
    index,    \* Element._index of every element of the queue
    op,       \* the method called last
    arg,      \* the handle and key passed to it
    ret,      \* what it returned, or the exception it raised
    input,    \* SortSpec: the keys to add, in insertion order
    out,      \* SortSpec: the keys returned by remove_min so far
    pc,       \* SortSpec: number of keys of input added so far
    structure,\* Graph._structure : vertex -> adjacency dict (out-edges)
    inedges,  \* DirectedGraph._inedges : vertex -> adjacency dict
    label,    \* Vertex._element of every vertex of the graph
    edge,     \* Edge._vertices and Edge._element of every edge of the graph
    directed, \* TRUE for a DirectedGraph, FALSE for a Graph
    joined,   \* the (v, w) of every add_edge call that returned an Edge
    source,   \* dijkstra: the argument s
    locs,     \* dijkstra: vertex -> its Element in open
    preds,    \* dijkstra: vertex -> predecessor
    closed,   \* dijkstra: vertex -> (cost, predecessor); the value returned
    phase,    \* dijkstra: "idle", "loop" (at the loop test), "done", "raised"
    results,  \* RerunSpec: source -> the costs its first run returned
    tsort,    \* topological_sort: the list tsort
    available,\* topological_sort: the list available
    inedgecount, \* topological_sort: vertex -> in-edges from unsorted vertices
    tphase,   \* topological_sort: "idle", "loop" (at the loop test), "done"
    map,      \* HashMapLP._map : list of cells
    mapsize,  \* HashMapLP._size
    dict,     \* the reference dictionary: key -> value set last, if present
    node,     \* SLLNode.element and SLLNode.next of every node in use
    first,    \* SLinkedList.first : a node, or 0 for None
    lastnode, \* SLinkedList.last (SLL2.py) : a node, or 0 for None
    listsize, \* SLinkedList.size
    tailed,   \* TRUE for the list of SLL2.py, FALSE for the list of SLL.py
    qbody,    \* QueueV2.body : list of cells
    qhead,    \* QueueV2.head
    qtail,    \* QueueV2.tail
    qsize,    \* QueueV2.size
    queued,   \* the items enqueued and not yet dequeued, oldest first
    enqueued, \* the number of enqueue calls made
    tree,     \* the fields of every BSTNode of the tree; the root is node 1
    present   \* the items added to the tree and not removed since

heapVars == <<body, size, key, value, index>>
callVars == <<op, arg, ret>>
sortVars == <<input, out, pc>>
graphVars == <<structure, inedges, label, edge, directed, joined>>
dijkstraVars == <<source, locs, preds, closed, phase, results>>
tsortVars == <<tsort, available, inedgecount, tphase>>
mapVars == <<map, mapsize, dict>>
listVars == <<node, first, lastnode, listsize, tailed>>
queueVars == <<qbody, qhead, qtail, qsize, queued, enqueued>>
treeVars == <<tree, present>>
moreVars == <<queueVars, treeVars>>
otherVars == <<tsortVars, mapVars, listVars, moreVars>>
vars == <<body, size, key, value, index, op, arg, ret, input, out, pc,
          structure, inedges, label, edge, directed, joined,
          source, locs, preds, closed, phase, results,
          tsort, available, inedgecount, tphase, map, mapsize, dict,
          node, first, lastnode, listsize, tailed,
          qbody, qhead, qtail, qsize, queued, enqueued, tree, present>>

\* ------------------------------------------------------- return values
None == [kind |-> "None"]
IndexError == [kind |-> "IndexError"]
Pair(v, k) == [kind |-> "pair", value |-> v, key |-> k]
Handle(e) == [kind |-> "handle", h |-> e]
Plain(x) == [kind |-> "plain", x |-> x]
NoArg == [h |-> 0, k |-> 0]

\* ------------------------------------------------------------ the heap
\* The queue as one value, so that the methods are operators on it.
Heap == [body |-> body, size |-> size, key |-> key, value |-> value, index |-> index]

EmptyHeap == [body |-> <<>>, size |-> 0, key |-> <<>>, value |-> <<>>, index |-> <<>>]

\* list.append and list.pop on a 0-based list
ListAppend(l, e, n) == [i \in 0..n |-> IF i = n THEN e ELSE l[i]]
ListPop(l, n) == [i \in 0..(n - 2) |-> l[i]]
Len0(l) == Cardinality(DOMAIN l)

\* Element(k, v, i): a new object, distinct from every element of the queue
NewElement(H) == CHOOSE e \in Handles : e \notin DOMAIN H.key /\
                     \A f \in Handles : f \notin DOMAIN H.key => e <= f

\* the payload a caller passes to add: one that no element of the queue
\* holds, so that a returned value tells which element it came from
Payload(H) == CHOOSE v \in Values : /\ \A h \in DOMAIN H.value : H.value[h] # v
                                    /\ \A w \in Values :
                                          (\A h \in DOMAIN H.value : H.value[h] # w) => v <= w

Extend(f, e, x) == [h \in DOMAIN f \cup {e} |-> IF h = e THEN x ELSE f[h]]
Drop(f, e) == [h \in DOMAIN f \ {e} |-> f[h]]

\* Element.__lt__ on the elements in slots i and j
Lt(H, i, j) == H.key[H.body[i]] < H.key[H.body[j]]

\* Swap as it would be without the two _index assignments
Swap_noindex(H, i, j) ==
    [H EXCEPT !.body = [@ EXCEPT ![i] = H.body[j], ![j] = H.body[i]]]

\* body[i], body[j] = body[j], body[i]; body[i]._index = i; body[j]._index = j
Swap(H, i, j) ==
    LET b == [H.body EXCEPT ![i] = H.body[j], ![j] = H.body[i]]
    IN  [H EXCEPT !.body = b,
                  !.index = [@ EXCEPT ![b[i]] = i, ![b[j]] = j]]

\* bubbleup as it would be if it exchanged the _key fields of the two
\* elements and left the elements in their slots
Swap_keys(H, i, j) ==
    [H EXCEPT !.key = [@ EXCEPT ![H.body[i]] = H.key[H.body[j]],
                                ![H.body[j]] = H.key[H.body[i]]]]

RECURSIVE bubbleup_keys(_, _)
bubbleup_keys(H, i) ==
    IF i > 0
    THEN LET parent == (i - 1) \div 2
         IN  IF Lt(H, i, parent)
             THEN bubbleup_keys(Swap_keys(H, i, parent), parent)
             ELSE H
    ELSE H

\* bubbleup as it would be without the comparison with the parent
RECURSIVE bubbleup_root(_, _)
bubbleup_root(H, i) ==
    IF i > 0
    THEN bubbleup_root(Swap(H, i, (i - 1) \div 2), (i - 1) \div 2)
    ELSE H

RECURSIVE bubbleup(_, _)
bubbleup(H, i) ==
    IF i > 0
    THEN LET parent == (i - 1) \div 2
         IN  IF Lt(H, i, parent)
             THEN bubbleup(Swap(H, i, parent), parent)
             ELSE H
    ELSE H

\* bubbledown as it would be if it never looked at the right child
RECURSIVE bubbledown_left(_, _, _)
bubbledown_left(H, i, last) ==
    IF last > i * 2
    THEN LET lc == i * 2 + 1
         IN  IF Lt(H, lc, i)
             THEN bubbledown_left(Swap(H, i, lc), lc, last)
             ELSE H
    ELSE H

\* bubbledown as it would be if the right child won a tie with the left
RECURSIVE bubbledown_right(_, _, _)
bubbledown_right(H, i, last) ==
    IF last > i * 2
    THEN LET lc == i * 2 + 1
             rc == i * 2 + 2
             minc == IF last > lc /\ ~Lt(H, lc, rc) THEN rc ELSE lc
         IN  IF Lt(H, minc, i)
             THEN bubbledown_right(Swap(H, i, minc), minc, last)
             ELSE H
    ELSE H

RECURSIVE bubbledown(_, _, _)
bubbledown(H, i, last) ==
    IF last > i * 2
    THEN LET lc == i * 2 + 1
             rc == i * 2 + 2
             minc == IF last > lc /\ Lt(H, rc, lc) THEN rc ELSE lc
         IN  IF Lt(H, minc, i)
             THEN bubbledown(Swap(H, i, minc), minc, last)
             ELSE H
    ELSE H

\* Each method is an operator from the queue to [heap, ret].

\* add as it would be without the size update
add_nosize(H, k, v) ==
    LET e == NewElement(H)
        H1 == [H EXCEPT !.key = Extend(@, e, k),
                        !.value = Extend(@, e, v),
                        !.index = Extend(@, e, H.size),
                        !.body = ListAppend(@, e, H.size)]
    IN  [heap |-> bubbleup(H1, H1.size - 1), ret |-> Handle(e)]

add(H, k, v) ==
    LET e == NewElement(H)
        H1 == [H EXCEPT !.key = Extend(@, e, k),
                        !.value = Extend(@, e, v),
                        !.index = Extend(@, e, H.size),
                        !.body = ListAppend(@, e, H.size),
                        !.size = @ + 1]
    IN  [heap |-> bubbleup(H1, H1.size - 1), ret |-> Handle(e)]

\* min as it would be if it read the last slot instead of the root
min_last(H) ==
    IF Len0(H.body) = 0
    THEN [heap |-> H, ret |-> IndexError]
    ELSE [heap |-> H, ret |-> Pair(H.value[H.body[H.size - 1]], H.key[H.body[H.size - 1]])]

min(H) ==
    IF Len0(H.body) = 0
    THEN [heap |-> H, ret |-> IndexError]
    ELSE [heap |-> H, ret |-> Pair(H.value[H.body[0]], H.key[H.body[0]])]

\* the element e leaves the queue: no reference to it is left in _body
Forget(H, e) == [H EXCEPT !.key = Drop(@, e), !.value = Drop(@, e), !.index = Drop(@, e)]

\* remove_min as it would be without the bubbledown of the new root
remove_min_nodown(H) ==
    IF H.size = 0
    THEN [heap |-> H, ret |-> None]
    ELSE LET m == H.body[0]
             r == Pair(H.value[m], H.key[m])
             H1 == [H EXCEPT !.body = ListPop([@ EXCEPT ![0] = H.body[H.size - 1]], H.size),
                             !.size = @ - 1]
             H2 == Forget(H1, m)
         IN  IF H2.size = 0
             THEN [heap |-> H2, ret |-> r]
             ELSE [heap |-> [H2 EXCEPT !.index[H2.body[0]] = 0], ret |-> r]

remove_min(H) ==
    IF H.size = 0
    THEN [heap |-> H, ret |-> None]
    ELSE LET m == H.body[0]
             r == Pair(H.value[m], H.key[m])
             H1 == [H EXCEPT !.body = ListPop([@ EXCEPT ![0] = H.body[H.size - 1]], H.size),
                             !.size = @ - 1]
             H2 == Forget(H1, m)
         IN  IF H2.size = 0
             THEN [heap |-> H2, ret |-> r]
             ELSE LET H3 == [H2 EXCEPT !.index[H2.body[0]] = 0]
                  IN  [heap |-> bubbledown(H3, 0, H3.size - 1), ret |-> r]

is_empty(H) == [heap |-> H, ret |-> Plain(H.size = 0)]

length(H) == [heap |-> H, ret |-> Plain(H.size)]

\* update_key as it would be with the bubbledown only
update_key_noup(H, element, newkey) ==
    LET H1 == [H EXCEPT !.key[element] = newkey]
    IN  [heap |-> bubbledown(H1, H1.index[element], H1.size - 1), ret |-> None]

update_key(H, element, newkey) ==
    LET H1 == [H EXCEPT !.key[element] = newkey]
        H2 == bubbleup(H1, H1.index[element])
    IN  [heap |-> bubbledown(H2, H2.index[element], H2.size - 1), ret |-> None]

get_key(H, element) == [heap |-> H, ret |-> Plain(H.key[element])]

\* remove as it would be with the bubbledown only
remove_noup(H, element) ==
    IF H.size = 0
    THEN [heap |-> H, ret |-> None]
    ELSE LET r == Pair(H.value[element], H.key[element])
             idx == H.index[element]
             H1 == [H EXCEPT !.body = ListPop([@ EXCEPT ![idx] = H.body[H.size - 1]], H.size),
                             !.size = @ - 1]
             H2 == Forget(H1, element)
         IN  IF H2.size = 0
             THEN [heap |-> H2, ret |-> r]
             ELSE IF idx >= Len0(H2.body)
                  THEN [heap |-> H2, ret |-> IndexError]
                  ELSE LET H3 == [H2 EXCEPT !.index[H2.body[idx]] = idx]
                       IN  [heap |-> bubbledown(H3, idx, H3.size - 1), ret |-> r]

\* remove as it would be without the test for the empty queue:
\* self._body[index] = self._body[-1] on an empty list is an IndexError
remove_nocheck(H, element) ==
    IF H.size = 0
    THEN [heap |-> H, ret |-> IndexError]
    ELSE LET r == Pair(H.value[element], H.key[element])
             idx == H.index[element]
             H1 == [H EXCEPT !.body = ListPop([@ EXCEPT ![idx] = H.body[H.size - 1]], H.size),
                             !.size = @ - 1]
             H2 == Forget(H1, element)
         IN  IF H2.size = 0
             THEN [heap |-> H2, ret |-> r]
             ELSE IF idx >= Len0(H2.body)
                  THEN [heap |-> H2, ret |-> IndexError]
                  ELSE LET H3 == [H2 EXCEPT !.index[H2.body[idx]] = idx]
                           H4 == bubbleup(H3, idx)
                       IN  [heap |-> bubbledown(H4, idx, H4.size - 1), ret |-> r]

remove(H, element) ==
    IF H.size = 0
    THEN [heap |-> H, ret |-> None]
    ELSE LET r == Pair(H.value[element], H.key[element])
             idx == H.index[element]
             H1 == [H EXCEPT !.body = ListPop([@ EXCEPT ![idx] = H.body[H.size - 1]], H.size),
                             !.size = @ - 1]
             H2 == Forget(H1, element)
         IN  IF H2.size = 0
             THEN [heap |-> H2, ret |-> r]
             ELSE IF idx >= Len0(H2.body)
                  \* self._body[index] with index = len(_body): IndexError
                  THEN [heap |-> H2, ret |-> IndexError]
                  ELSE LET H3 == [H2 EXCEPT !.index[H2.body[idx]] = idx]
                           H4 == bubbleup(H3, idx)
                       IN  [heap |-> bubbledown(H4, idx, H4.size - 1), ret |-> r]

\* ----------------------------------------------------------- the graph
\* object identities of vertices and of edges
VertexIds == 1..(MaxVertices + 5)
EdgeIds == 1..(MaxRoads + 1)

VertexRef(v) == [kind |-> "vertex", v |-> v]
EdgeRef(e) == [kind |-> "edge", e |-> e]
List(l) == [kind |-> "list", items |-> l]
TypeError == [kind |-> "TypeError"]
KeyError == [kind |-> "KeyError"]

\* The graph as one value, so that the methods are operators on it.
Graph == [structure |-> structure, inedges |-> inedges, label |-> label,
          edge |-> edge, directed |-> directed]

\* Graph() and DirectedGraph()
EmptyGraph(d) == [structure |-> <<>>, inedges |-> <<>>, label |-> <<>>,
                  edge |-> <<>>, directed |-> d]

\* a dict in insertion order: k in d, d[k], d[k] = x, and its values
DictKeys(d) == {d[i][1] : i \in 1..Len(d)}
DictGet(d, k) == d[CHOOSE i \in 1..Len(d) : d[i][1] = k][2]
DictSet(d, k, x) ==
    IF k \in DictKeys(d)
    THEN [i \in 1..Len(d) |-> IF d[i][1] = k THEN <<k, x>> ELSE d[i]]
    ELSE Append(d, <<k, x>>)
DictValues(d) == [i \in 1..Len(d) |-> d[i][2]]

\* Vertex(element): a new object, distinct from every vertex of the graph
NewVertex(G) == CHOOSE v \in VertexIds : v \notin DOMAIN G.structure /\
                    \A u \in VertexIds : u \notin DOMAIN G.structure => v <= u

\* Edge(v, w, element): a new object, distinct from every edge of the graph
NewEdge(G) == CHOOSE e \in EdgeIds : e \notin DOMAIN G.edge /\
                  \A f \in EdgeIds : f \notin DOMAIN G.edge => e <= f

\* the Edge objects some adjacency dict refers to
Referenced(G) ==
    UNION {{G.structure[v][i][2] : i \in 1..Len(G.structure[v])} : v \in DOMAIN G.structure}
    \cup UNION {{G.inedges[v][i][2] : i \in 1..Len(G.inedges[v])} : v \in DOMAIN G.inedges}

\* an Edge that no adjacency dict refers to any more is dropped
Collect(G) == [G EXCEPT !.edge = [e \in DOMAIN G.edge \cap Referenced(G) |-> G.edge[e]]]

\* opposite as it would be if it returned the second endpoint always
opposite_end(ed, v) == VertexRef(ed.vertices[2])

\* Edge.opposite on the Edge record ed
opposite(ed, v) ==
    IF ed.vertices[1] = v THEN VertexRef(ed.vertices[2])
    ELSE IF ed.vertices[2] = v THEN VertexRef(ed.vertices[1])
    ELSE None

RECURSIVE SumLen(_, _)
SumLen(f, S) ==
    IF S = {} THEN 0
    ELSE LET v == CHOOSE u \in S : TRUE IN Len(f[v]) + SumLen(f, S \ {v})

num_vertices(G) == Cardinality(DOMAIN G.structure)

num_edges(G) ==
    IF G.directed
    THEN SumLen(G.structure, DOMAIN G.structure)
    ELSE SumLen(G.structure, DOMAIN G.structure) \div 2

get_outedges(G, v) ==
    IF v \in DOMAIN G.structure
    THEN [graph |-> G, ret |-> List(DictValues(G.structure[v]))]
    ELSE [graph |-> G, ret |-> None]

\* get_edges as it would be if it returned the empty list for a vertex
\* that is not in the graph
get_edges_nonone(G, v) ==
    IF v \in DOMAIN G.structure
    THEN [graph |-> G, ret |-> List(DictValues(G.structure[v]))]
    ELSE [graph |-> G, ret |-> List(<<>>)]

get_edges(G, v) ==
    IF G.directed
    THEN get_outedges(G, v)
    ELSE IF v \in DOMAIN G.structure
         THEN [graph |-> G, ret |-> List(DictValues(G.structure[v]))]
         ELSE [graph |-> G, ret |-> None]

\* add_vertex as it would be if it handed back a vertex of the graph that
\* has the label already
add_vertex_reuse(G, x) ==
    IF \E u \in DOMAIN G.structure : G.label[u] = x
    THEN [graph |-> G,
          ret |-> VertexRef(CHOOSE u \in DOMAIN G.structure : G.label[u] = x)]
    ELSE LET v == NewVertex(G)
             G1 == [G EXCEPT !.label = Extend(@, v, x),
                             !.structure = Extend(@, v, <<>>)]
         IN  [graph |-> IF G.directed
                        THEN [G1 EXCEPT !.inedges = Extend(@, v, <<>>)]
                        ELSE G1,
              ret |-> VertexRef(v)]

add_vertex(G, x) ==
    LET v == NewVertex(G)
        G1 == [G EXCEPT !.label = Extend(@, v, x),
                        !.structure = Extend(@, v, <<>>)]
    IN  [graph |-> IF G.directed
                   THEN [G1 EXCEPT !.inedges = Extend(@, v, <<>>)]
                   ELSE G1,
         ret |-> VertexRef(v)]

\* add_edge as it would be with a test of the first endpoint only: the
\* entry [v][w] is made before the dict of w is found missing
add_edge_halfcheck(G, v, w, x) ==
    IF v \notin DOMAIN G.structure
    THEN [graph |-> G, ret |-> None]
    ELSE LET e == NewEdge(G)
             G1 == [G EXCEPT !.edge = Extend(@, e, [vertices |-> <<v, w>>, element |-> x]),
                             !.structure[v] = DictSet(@, w, e)]
             G2 == IF G.directed
                   THEN [G1 EXCEPT !.inedges[w] = DictSet(@, v, e)]
                   ELSE [G1 EXCEPT !.structure[w] = DictSet(@, v, e)]
         IN  IF w \notin DOMAIN G.structure
             THEN [graph |-> Collect(G1), ret |-> KeyError]
             ELSE [graph |-> Collect(G2), ret |-> EdgeRef(e)]

\* add_edge as it would be if it kept the edge that joins v and w already
add_edge_keep(G, v, w, x) ==
    IF v \notin DOMAIN G.structure \/ w \notin DOMAIN G.structure
    THEN [graph |-> G, ret |-> None]
    ELSE IF w \in DictKeys(G.structure[v])
    THEN [graph |-> G, ret |-> EdgeRef(DictGet(G.structure[v], w))]
    ELSE LET e == NewEdge(G)
             G1 == [G EXCEPT !.edge = Extend(@, e, [vertices |-> <<v, w>>, element |-> x]),
                             !.structure[v] = DictSet(@, w, e)]
             G2 == IF G.directed
                   THEN [G1 EXCEPT !.inedges[w] = DictSet(@, v, e)]
                   ELSE [G1 EXCEPT !.structure[w] = DictSet(@, v, e)]
         IN  [graph |-> Collect(G2), ret |-> EdgeRef(e)]

\* add_edge as it would be without the entry under the second endpoint
add_edge_oneway(G, v, w, x) ==
    IF v \notin DOMAIN G.structure \/ w \notin DOMAIN G.structure
    THEN [graph |-> G, ret |-> None]
    ELSE LET e == NewEdge(G)
             G1 == [G EXCEPT !.edge = Extend(@, e, [vertices |-> <<v, w>>, element |-> x]),
                             !.structure[v] = DictSet(@, w, e)]
         IN  [graph |-> Collect(G1), ret |-> EdgeRef(e)]

add_edge(G, v, w, x) ==
    IF v \notin DOMAIN G.structure \/ w \notin DOMAIN G.structure
    THEN [graph |-> G, ret |-> None]
    ELSE LET e == NewEdge(G)
             G1 == [G EXCEPT !.edge = Extend(@, e, [vertices |-> <<v, w>>, element |-> x]),
                             !.structure[v] = DictSet(@, w, e)]
             G2 == IF G.directed
                   THEN [G1 EXCEPT !.inedges[w] = DictSet(@, v, e)]
                   ELSE [G1 EXCEPT !.structure[w] = DictSet(@, v, e)]
         IN  [graph |-> Collect(G2), ret |-> EdgeRef(e)]

\* get_edge: the Edge under [v][w], for a DirectedGraph the edge from v to w
get_edge(G, v, w) ==
    IF v \in DOMAIN G.structure /\ w \in DictKeys(G.structure[v])
    THEN [graph |-> G, ret |-> EdgeRef(DictGet(G.structure[v], w))]
    ELSE [graph |-> G, ret |-> None]

\* DirectedGraph.out_degree; self._structure[v] of a missing key: KeyError
out_degree(G, v) ==
    IF v \in DOMAIN G.structure
    THEN [graph |-> G, ret |-> Plain(Len(G.structure[v]))]
    ELSE [graph |-> G, ret |-> KeyError]

degree(G, v) ==
    IF G.directed
    THEN out_degree(G, v)
    ELSE IF v \in DOMAIN G.structure
         THEN [graph |-> G, ret |-> Plain(Len(G.structure[v]))]
         ELSE [graph |-> G, ret |-> KeyError]

\* add_vertex_if_new as it would be without the scan for the label
add_vertex_if_new_noscan(G, x) == add_vertex(G, x)

\* the vertices are the keys of _structure in insertion order, which is
\* the order of their identities: the scan returns the first with label x
add_vertex_if_new(G, x) ==
    LET same == {u \in DOMAIN G.structure : G.label[u] = x}
    IN  IF same # {}
        THEN [graph |-> G, ret |-> VertexRef(CHOOSE u \in same : \A t \in same : u <= t)]
        ELSE add_vertex(G, x)

\* ------------------------------------------------------------- actions
Live == DOMAIN key

Apply(H) ==
    /\ body' = H.body
    /\ size' = H.size
    /\ key' = H.key
    /\ value' = H.value
    /\ index' = H.index

\* a call made by a client that records the call and what came back
Call(name, a, res) ==
    /\ Apply(res.heap)
    /\ op' = name
    /\ arg' = a
    /\ ret' = res.ret

Add ==
    /\ size < MaxSize
    /\ \E k \in Keys :
          Call("add", [h |-> 0, k |-> k], add(Heap, k, Payload(Heap)))
    /\ UNCHANGED <<sortVars, graphVars, dijkstraVars, otherVars>>

Min ==
    /\ Call("min", NoArg, min(Heap))
    /\ UNCHANGED <<sortVars, graphVars, dijkstraVars, otherVars>>

RemoveMin ==
    /\ Call("remove_min", NoArg, remove_min(Heap))
    /\ UNCHANGED <<sortVars, graphVars, dijkstraVars, otherVars>>

IsEmpty ==
    /\ Call("is_empty", NoArg, is_empty(Heap))
    /\ UNCHANGED <<sortVars, graphVars, dijkstraVars, otherVars>>

Length ==
    /\ Call("length", NoArg, length(Heap))
    /\ UNCHANGED <<sortVars, graphVars, dijkstraVars, otherVars>>

UpdateKey ==
    /\ \E e \in Live, k \in Keys :
          Call("update_key", [h |-> e, k |-> k], update_key(Heap, e, k))
    /\ UNCHANGED <<sortVars, graphVars, dijkstraVars, otherVars>>

GetKey ==
    /\ \E e \in Live :
          Call("get_key", [h |-> e, k |-> 0], get_key(Heap, e))
    /\ UNCHANGED <<sortVars, graphVars, dijkstraVars, otherVars>>

\* remove(element) with a live handle; on an empty queue no handle is live
\* and the argument is a stale one
Remove ==
    /\ \E e \in (IF size = 0 THEN {1} ELSE Live) :
          Call("remove", [h |-> e, k |-> 0], remove(Heap, e))
    /\ UNCHANGED <<sortVars, graphVars, dijkstraVars, otherVars>>

HeapInit ==
    /\ body = <<>>
    /\ size = 0
    /\ key = <<>>
    /\ value = <<>>
    /\ index = <<>>
    /\ op = "init"
    /\ arg = NoArg
    /\ ret = None

\* no graph has been built and dijkstra has not been called
NoGraph ==
    /\ structure = <<>>
    /\ inedges = <<>>
    /\ label = <<>>
    /\ edge = <<>>
    /\ directed = FALSE
    /\ joined = {}

DijkstraIdle ==
    /\ source = 0
    /\ locs = <<>>
    /\ preds = <<>>
    /\ closed = <<>>
    /\ phase = "idle"
    /\ results = <<>>

TsortIdle ==
    /\ tsort = <<>>
    /\ available = <<>>
    /\ inedgecount = <<>>
    /\ tphase = "idle"

NoMap ==
    /\ map = <<>>
    /\ mapsize = 0
    /\ dict = <<>>

NoList ==
    /\ node = <<>>
    /\ first = 0
    /\ lastnode = 0
    /\ listsize = 0
    /\ tailed = FALSE

\* no topological sort is running, no hash map and no linked list is made
NoQueue ==
    /\ qbody = <<>>
    /\ qhead = 0
    /\ qtail = 0
    /\ qsize = 0
    /\ queued = <<>>
    /\ enqueued = 0

NoTree ==
    /\ tree = <<>>
    /\ present = {}

\* no queue and no search tree is made
MoreIdle ==
    /\ NoQueue
    /\ NoTree

OtherIdle ==
    /\ TsortIdle
    /\ NoMap
    /\ NoList
    /\ MoreIdle

Init ==
    /\ HeapInit
    /\ input = <<>>
    /\ out = <<>>
    /\ pc = 0
    /\ NoGraph
    /\ DijkstraIdle
    /\ OtherIdle

Next ==
    \/ Add
    \/ Min
    \/ RemoveMin
    \/ IsEmpty
    \/ Length
    \/ UpdateKey
    \/ GetKey
    \/ Remove

Spec == Init /\ [][Next]_vars

\* ---------------------------------------------------------------------
\* HeapSpec: the four mutating methods on queues of up to DeepSize
\* elements, called by a client that keeps no record of the calls.
DeepAdd ==
    /\ size < DeepSize
    /\ \E k \in DeepKeys : Apply(add(Heap, k, Payload(Heap)).heap)
    /\ UNCHANGED <<callVars, sortVars, graphVars, dijkstraVars, otherVars>>

DeepRemoveMin ==
    /\ size > 0
    /\ Apply(remove_min(Heap).heap)
    /\ UNCHANGED <<callVars, sortVars, graphVars, dijkstraVars, otherVars>>

DeepUpdateKey ==
    /\ \E e \in Live, k \in DeepKeys : Apply(update_key(Heap, e, k).heap)
    /\ UNCHANGED <<callVars, sortVars, graphVars, dijkstraVars, otherVars>>

DeepRemove ==
    /\ \E e \in Live : Apply(remove(Heap, e).heap)
    /\ UNCHANGED <<callVars, sortVars, graphVars, dijkstraVars, otherVars>>

HeapNext ==
    \/ DeepAdd
    \/ DeepRemoveMin
    \/ DeepUpdateKey
    \/ DeepRemove

HeapSpec == Init /\ [][HeapNext]_vars

\* ---------------------------------------------------------------------
\* SortSpec: the keys of input are added to an empty queue in the order
\* given, then remove_min is called until the queue is empty.
RECURSIVE SeqsUpTo(_, _)
SeqsUpTo(S, n) ==
    IF n = 0 THEN {<<>>}
    ELSE LET shorter == SeqsUpTo(S, n - 1)
         IN  shorter \cup {Append(s, x) : s \in {t \in shorter : Len(t) = n - 1}, x \in S}

SortInit ==
    /\ HeapInit
    /\ input \in SeqsUpTo(SortKeys, SortMaxLen)
    /\ out = <<>>
    /\ pc = 0
    /\ NoGraph
    /\ DijkstraIdle
    /\ OtherIdle

SortAdd ==
    /\ pc < Len(input)
    /\ Call("add", [h |-> 0, k |-> input[pc + 1]], add(Heap, input[pc + 1], Payload(Heap)))
    /\ pc' = pc + 1
    /\ UNCHANGED <<input, out, graphVars, dijkstraVars, otherVars>>

SortRemoveMin ==
    /\ pc = Len(input)
    /\ size > 0
    /\ LET res == remove_min(Heap)
       IN  /\ Call("remove_min", NoArg, res)
           /\ out' = Append(out, res.ret.key)
    /\ UNCHANGED <<input, pc, graphVars, dijkstraVars, otherVars>>

SortNext ==
    \/ SortAdd
    \/ SortRemoveMin

SortSpec == SortInit /\ [][SortNext]_vars

\* ---------------------------------------------------------------------
\* GraphSpec: a Graph or a DirectedGraph of up to MaxVertices vertices,
\* built and queried by a client that records every call and its result.
\* A vertex argument is a vertex of the graph or a Vertex object the client
\* made itself, which is not in the graph.  The vertices all carry one
\* label here; LabelSpec is about labels.
PlainLabels == {"a"}
Labels == {"a", "b"}
\* every edge is added with a weight that no edge of the graph carries, so
\* that a weight tells which add_edge call an edge came from; the weights
\* bound the number of edges
GraphWeights == {1, 2, 3}

Weight(G) == CHOOSE x \in GraphWeights :
                /\ \A e \in DOMAIN G.edge : G.edge[e].element # x
                /\ \A y \in GraphWeights :
                      (\A e \in DOMAIN G.edge : G.edge[e].element # y) => x <= y

ApplyGraph(G) ==
    /\ structure' = G.structure
    /\ inedges' = G.inedges
    /\ label' = G.label
    /\ edge' = G.edge
    /\ directed' = G.directed

GraphCall(name, a, res) ==
    /\ ApplyGraph(res.graph)
    /\ op' = name
    /\ arg' = a
    /\ ret' = res.ret
    /\ joined' = IF name = "add_edge" /\ res.ret # None
                 THEN joined \cup {<<a.v, a.w>>}
                 ELSE joined

VertexArgs == DOMAIN structure \cup {NewVertex(Graph)}

GraphInit ==
    /\ HeapInit
    /\ input = <<>>
    /\ out = <<>>
    /\ pc = 0
    /\ structure = <<>>
    /\ inedges = <<>>
    /\ label = <<>>
    /\ edge = <<>>
    /\ directed \in BOOLEAN
    /\ joined = {}
    /\ DijkstraIdle
    /\ OtherIdle

AddVertex ==
    /\ num_vertices(Graph) < MaxVertices
    /\ \E x \in PlainLabels :
          GraphCall("add_vertex", [v |-> 0, w |-> 0, x |-> x], add_vertex(Graph, x))
    /\ UNCHANGED <<heapVars, sortVars, dijkstraVars, otherVars>>

AddEdge ==
    /\ \E v \in VertexArgs, w \in VertexArgs :
          LET x == Weight(Graph)
              res == add_edge(Graph, v, w, x)
          IN  /\ Cardinality(DOMAIN res.graph.edge) < Cardinality(GraphWeights)
              /\ GraphCall("add_edge", [v |-> v, w |-> w, x |-> x], res)
    /\ UNCHANGED <<heapVars, sortVars, dijkstraVars, otherVars>>

GetEdges ==
    /\ \E v \in VertexArgs :
          GraphCall("get_edges", [v |-> v, w |-> 0, x |-> 0], get_edges(Graph, v))
    /\ UNCHANGED <<heapVars, sortVars, dijkstraVars, otherVars>>

GetEdge ==
    /\ \E v \in VertexArgs, w \in VertexArgs :
          GraphCall("get_edge", [v |-> v, w |-> w, x |-> 0], get_edge(Graph, v, w))
    /\ UNCHANGED <<heapVars, sortVars, dijkstraVars, otherVars>>

Degree ==
    /\ \E v \in VertexArgs :
          GraphCall("degree", [v |-> v, w |-> 0, x |-> 0], degree(Graph, v))
    /\ UNCHANGED <<heapVars, sortVars, dijkstraVars, otherVars>>

GraphNext ==
    \/ AddVertex
    \/ AddEdge
    \/ GetEdges
    \/ GetEdge
    \/ Degree

GraphSpec == GraphInit /\ [][GraphNext]_vars

\* ---------------------------------------------------------------------
\* LabelSpec: a Graph or a DirectedGraph of up to MaxVertices vertices
\* whose labels may be equal or different, built with add_vertex,
\* add_vertex_if_new and add_edge between vertices of the graph.
AddLabelled ==
    /\ num_vertices(Graph) < MaxVertices
    /\ \E x \in Labels :
          GraphCall("add_vertex", [v |-> 0, w |-> 0, x |-> x], add_vertex(Graph, x))
    /\ UNCHANGED <<heapVars, sortVars, dijkstraVars, otherVars>>

AddVertexIfNew ==
    /\ \E x \in Labels :
          LET res == add_vertex_if_new(Graph, x)
          IN  /\ num_vertices(res.graph) <= MaxVertices
              /\ GraphCall("add_vertex_if_new", [v |-> 0, w |-> 0, x |-> x], res)
    /\ UNCHANGED <<heapVars, sortVars, dijkstraVars, otherVars>>

JoinLabelled ==
    /\ \E v \in DOMAIN structure, w \in DOMAIN structure :
          LET x == Weight(Graph)
              res == add_edge(Graph, v, w, x)
          IN  /\ Cardinality(DOMAIN res.graph.edge) < Cardinality(GraphWeights)
              /\ GraphCall("add_edge", [v |-> v, w |-> w, x |-> x], res)
    /\ UNCHANGED <<heapVars, sortVars, dijkstraVars, otherVars>>

LabelNext ==
    \/ AddLabelled
    \/ AddVertexIfNew
    \/ JoinLabelled

LabelSpec == GraphInit /\ [][LabelNext]_vars

\* ---------------------------------------------------------------------
\* dijkstra(s) on a graph read by graphreader: the vertices are added in
\* the order of their labels, then the edges in the order of their
\* endpoints.  The locals open, locs, preds and closed live in the
\* variables of the same names, open in the variables of the queue.
DijkstraLabels == <<"A", "B", "C", "D">>
RerunLabels == <<"A", "B", "C">>
Weights == {0, 1, 2, 5}
AnyWeights == {-1, 0, 1}

RECURSIVE AddVertices(_, _, _)
AddVertices(G, ls, i) ==
    IF i > Len(ls) THEN G
    ELSE AddVertices(add_vertex(G, ls[i]).graph, ls, i + 1)

RECURSIVE AddEdges(_, _, _)
AddEdges(G, E, wt) ==
    IF E = {} THEN G
    ELSE LET p == CHOOSE q \in E :
                     \A r \in E : q[1] < r[1] \/ (q[1] = r[1] /\ q[2] <= r[2])
         IN  AddEdges(add_edge(G, p[1], p[2], wt[p]).graph, E \ {p}, wt)

graphreader(ls, E, wt) == AddEdges(AddVertices(EmptyGraph(FALSE), ls, 1), E, wt)

\* the graphs of the vertices ls with at most MaxRoads edges weighted in W
Roads(ls) == {p \in (1..Len(ls)) \X (1..Len(ls)) : p[1] < p[2]}

GraphRead(ls, W) ==
    \E E \in SUBSET Roads(ls) :
       /\ Cardinality(E) <= MaxRoads
       /\ \E wt \in [E -> W] :
             LET G == graphreader(ls, E, wt)
             IN  /\ structure = G.structure
                 /\ inedges = G.inedges
                 /\ label = G.label
                 /\ edge = G.edge
                 /\ directed = G.directed
                 /\ joined = E

\* the locals of dijkstra as one value
Locals == [open |-> Heap, locs |-> locs, preds |-> preds, closed |-> closed]

\* the first lines as they would be if closed were kept from the run before
start_keep(s) ==
    LET r == add(EmptyHeap, 0, s)
    IN  [open |-> r.heap,
         locs |-> Extend(<<>>, s, r.ret.h),
         preds |-> Extend(<<>>, s, None),
         closed |-> closed]

\* lines 67-72: the locals at the first test of the loop condition
start(s) ==
    LET r == add(EmptyHeap, 0, s)
    IN  [open |-> r.heap,
         locs |-> Extend(<<>>, s, r.ret.h),
         preds |-> Extend(<<>>, s, None),
         closed |-> <<>>]

\* the loop over the edges as it would be without the test w not in closed
RECURSIVE relax_reopen(_, _, _, _, _, _)
relax_reopen(G, D, v, cost, es, i) ==
    IF i > Len(es) THEN D
    ELSE LET e == G.edge[es[i]]
             w == opposite(e, v).v
             newcost == cost + e.element
         IN  IF w \notin DOMAIN D.locs
             THEN LET r == add(D.open, newcost, w)
                  IN  relax_reopen(G, [D EXCEPT !.preds = Extend(@, w, VertexRef(v)),
                                                !.open = r.heap,
                                                !.locs = Extend(@, w, r.ret.h)],
                                   v, cost, es, i + 1)
             ELSE IF newcost < get_key(D.open, D.locs[w]).ret.x
                  THEN relax_reopen(G, [D EXCEPT !.preds[w] = VertexRef(v),
                                                 !.open = update_key(D.open, D.locs[w], newcost).heap],
                                    v, cost, es, i + 1)
                  ELSE relax_reopen(G, D, v, cost, es, i + 1)

\* the loop over the edges as it would be without the update_key branch
RECURSIVE relax_noupdate(_, _, _, _, _, _)
relax_noupdate(G, D, v, cost, es, i) ==
    IF i > Len(es) THEN D
    ELSE LET e == G.edge[es[i]]
             w == opposite(e, v).v
         IN  IF w \in DOMAIN D.closed \/ w \in DOMAIN D.locs
             THEN relax_noupdate(G, D, v, cost, es, i + 1)
             ELSE LET r == add(D.open, cost + e.element, w)
                  IN  relax_noupdate(G, [D EXCEPT !.preds = Extend(@, w, VertexRef(v)),
                                                  !.open = r.heap,
                                                  !.locs = Extend(@, w, r.ret.h)],
                                     v, cost, es, i + 1)

\* the loop over the edges as it would be if the update_key branch left
\* preds alone
RECURSIVE relax_nopred(_, _, _, _, _, _)
relax_nopred(G, D, v, cost, es, i) ==
    IF i > Len(es) THEN D
    ELSE LET e == G.edge[es[i]]
             w == opposite(e, v).v
         IN  IF w \in DOMAIN D.closed
             THEN relax_nopred(G, D, v, cost, es, i + 1)
             ELSE LET newcost == cost + e.element
                  IN  IF w \notin DOMAIN D.locs
                      THEN LET r == add(D.open, newcost, w)
                           IN  relax_nopred(G, [D EXCEPT !.preds = Extend(@, w, VertexRef(v)),
                                                         !.open = r.heap,
                                                         !.locs = Extend(@, w, r.ret.h)],
                                            v, cost, es, i + 1)
                      ELSE IF newcost < get_key(D.open, D.locs[w]).ret.x
                           THEN relax_nopred(G, [D EXCEPT !.open = update_key(D.open, D.locs[w], newcost).heap],
                                             v, cost, es, i + 1)
                           ELSE relax_nopred(G, D, v, cost, es, i + 1)

\* the loop over the edges as it would be if an equal cost replaced the key
RECURSIVE relax_lax(_, _, _, _, _, _)
relax_lax(G, D, v, cost, es, i) ==
    IF i > Len(es) THEN D
    ELSE LET e == G.edge[es[i]]
             w == opposite(e, v).v
         IN  IF w \in DOMAIN D.closed
             THEN relax_lax(G, D, v, cost, es, i + 1)
             ELSE LET newcost == cost + e.element
                  IN  IF w \notin DOMAIN D.locs
                      THEN LET r == add(D.open, newcost, w)
                           IN  relax_lax(G, [D EXCEPT !.preds = Extend(@, w, VertexRef(v)),
                                                  !.open = r.heap,
                                                  !.locs = Extend(@, w, r.ret.h)],
                                     v, cost, es, i + 1)
                      ELSE IF newcost <= get_key(D.open, D.locs[w]).ret.x
                           THEN relax_lax(G, [D EXCEPT !.preds[w] = VertexRef(v),
                                                   !.open = update_key(D.open, D.locs[w], newcost).heap],
                                      v, cost, es, i + 1)
                           ELSE relax_lax(G, D, v, cost, es, i + 1)

\* lines 78-88: the edges es[i..] of v, in the order get_edges lists them
RECURSIVE relax(_, _, _, _, _, _)
relax(G, D, v, cost, es, i) ==
    IF i > Len(es) THEN D
    ELSE LET e == G.edge[es[i]]
             w == opposite(e, v).v
         IN  IF w \in DOMAIN D.closed
             THEN relax(G, D, v, cost, es, i + 1)
             ELSE LET newcost == cost + e.element
                  IN  IF w \notin DOMAIN D.locs
                      THEN LET r == add(D.open, newcost, w)
                           IN  relax(G, [D EXCEPT !.preds = Extend(@, w, VertexRef(v)),
                                                  !.open = r.heap,
                                                  !.locs = Extend(@, w, r.ret.h)],
                                     v, cost, es, i + 1)
                      ELSE IF newcost < get_key(D.open, D.locs[w]).ret.x
                           THEN relax(G, [D EXCEPT !.preds[w] = VertexRef(v),
                                                   !.open = update_key(D.open, D.locs[w], newcost).heap],
                                      v, cost, es, i + 1)
                           ELSE relax(G, D, v, cost, es, i + 1)

\* the loop body as it would be without the entry closed[v]
iteration_noclose(G, D) ==
    LET r == remove_min(D.open)
        v == r.ret.value
        cost == r.ret.key
        D1 == [open |-> r.heap,
               locs |-> Drop(D.locs, v),
               preds |-> Drop(D.preds, v),
               closed |-> D.closed]
        es == get_edges(G, v).ret
    IN  IF es = None
        THEN [locals |-> D1, raised |-> TRUE]
        ELSE [locals |-> relax(G, D1, v, cost, es.items, 1), raised |-> FALSE]

\* the loop body as it would be without del locs[v]
iteration_nodel(G, D) ==
    LET r == remove_min(D.open)
        v == r.ret.value
        cost == r.ret.key
        D1 == [open |-> r.heap,
               locs |-> D.locs,
               preds |-> Drop(D.preds, v),
               closed |-> Extend(D.closed, v, [cost |-> cost, pred |-> D.preds[v]])]
        es == get_edges(G, v).ret
    IN  IF es = None
        THEN [locals |-> D1, raised |-> TRUE]
        ELSE [locals |-> relax(G, D1, v, cost, es.items, 1), raised |-> FALSE]

\* lines 74-88: one pass through the loop body; for e in None is a TypeError
iteration(G, D) ==
    LET r == remove_min(D.open)
        v == r.ret.value
        cost == r.ret.key
        D1 == [open |-> r.heap,
               locs |-> Drop(D.locs, v),
               preds |-> Drop(D.preds, v),
               closed |-> Extend(D.closed, v, [cost |-> cost, pred |-> D.preds[v]])]
        es == get_edges(G, v).ret
    IN  IF es = None
        THEN [locals |-> D1, raised |-> TRUE]
        ELSE [locals |-> relax(G, D1, v, cost, es.items, 1), raised |-> FALSE]

ApplyLocals(D) ==
    /\ Apply(D.open)
    /\ locs' = D.locs
    /\ preds' = D.preds
    /\ closed' = D.closed

\* the cost mapping of a result
Costs(c) == [v \in DOMAIN c |-> c[v].cost]

DijkstraInit ==
    /\ HeapInit
    /\ input = <<>>
    /\ out = <<>>
    /\ pc = 0
    /\ GraphRead(DijkstraLabels, Weights)
    /\ DijkstraIdle
    /\ OtherIdle

\* a call of dijkstra(s), up to the first test of the loop condition
DijkstraCall ==
    /\ phase \in {"idle", "done", "raised"}
    /\ \E s \in VertexArgs :
          /\ source' = s
          /\ ApplyLocals(start(s))
    /\ phase' = "loop"
    /\ UNCHANGED <<callVars, sortVars, graphVars, results, otherVars>>

\* the loop condition holds and the loop body runs
DijkstraIter ==
    /\ phase = "loop"
    /\ ~is_empty(Heap).ret.x
    /\ LET it == iteration(Graph, Locals)
       IN  /\ ApplyLocals(it.locals)
           /\ phase' = IF it.raised THEN "raised" ELSE "loop"
    /\ UNCHANGED <<callVars, sortVars, graphVars, source, results, otherVars>>

\* the loop condition fails and closed is returned
DijkstraReturn ==
    /\ phase = "loop"
    /\ is_empty(Heap).ret.x
    /\ phase' = "done"
    /\ UNCHANGED <<heapVars, callVars, sortVars, graphVars, source, locs, preds, closed, results, otherVars>>

DijkstraNext ==
    \/ DijkstraCall
    \/ DijkstraIter
    \/ DijkstraReturn

DijkstraSpec == DijkstraInit /\ [][DijkstraNext]_vars

\* ---------------------------------------------------------------------
\* AnyWeightSpec: dijkstra on graphs with negative, zero and positive edge
\* weights.
AnyWeightInit ==
    /\ HeapInit
    /\ input = <<>>
    /\ out = <<>>
    /\ pc = 0
    /\ GraphRead(DijkstraLabels, AnyWeights)
    /\ DijkstraIdle
    /\ OtherIdle

AnyWeightSpec == AnyWeightInit /\ [][DijkstraNext]_vars

\* ---------------------------------------------------------------------
\* RerunSpec: dijkstra called again and again on one graph by a client that
\* keeps, for every source, the costs the first run from it returned and
\* whether there has been a second one.
RerunInit ==
    /\ HeapInit
    /\ input = <<>>
    /\ out = <<>>
    /\ pc = 0
    /\ GraphRead(RerunLabels, AnyWeights)
    /\ DijkstraIdle
    /\ OtherIdle

RerunReturn ==
    /\ phase = "loop"
    /\ is_empty(Heap).ret.x
    /\ phase' = "done"
    /\ results' = IF source \in DOMAIN results
                  THEN [results EXCEPT ![source].runs = 2]
                  ELSE Extend(results, source, [costs |-> Costs(closed), runs |-> 1])
    /\ UNCHANGED <<heapVars, callVars, sortVars, graphVars, source, locs, preds, closed, otherVars>>

RerunNext ==
    \/ DijkstraCall
    \/ DijkstraIter
    \/ RerunReturn

RerunSpec == RerunInit /\ [][RerunNext]_vars

\* ---------------------------------------------------------------------
\* TsortSpec: DirectedGraph.topological_sort on every DirectedGraph of
\* three vertices made by at most TsortEdges add_edge calls, self-loops,
\* cycles and edges added twice included.

TsortLabels == <<"a", "b", "c">>

in_degree(G, v) == Len(G.inedges[v])

\* the order in which "for v in self._structure" visits the vertices of S:
\* the order they were added in
RECURSIVE VertexOrder(_)
VertexOrder(S) ==
    IF S = {} THEN <<>>
    ELSE LET v == CHOOSE u \in S : \A t \in S : u <= t
         IN  <<v>> \o VertexOrder(S \ {v})

\* the locals of topological_sort after the loop that initialises them
tsort_start(G) ==
    [inedgecount |-> [v \in DOMAIN G.structure |-> in_degree(G, v)],
     tsort |-> <<>>,
     available |-> SelectSeq(VertexOrder(DOMAIN G.structure),
                             LAMBDA v : in_degree(G, v) = 0)]

\* the for loop as it would be if it made u available one in-edge early
RECURSIVE tsort_edges_early(_, _, _, _)
tsort_edges_early(G, L, w, es) ==
    IF es = <<>> THEN L
    ELSE LET u == opposite(G.edge[Head(es)], w).v
             c == L.inedgecount[u] - 1
             L1 == [L EXCEPT !.inedgecount[u] = c,
                             !.available = IF c = 1 \/ c = 0 THEN Append(@, u) ELSE @]
         IN  tsort_edges_early(G, L1, w, Tail(es))

\* for e in self.get_edges(w), over the edges es that are left
RECURSIVE tsort_edges(_, _, _, _)
tsort_edges(G, L, w, es) ==
    IF es = <<>> THEN L
    ELSE LET u == opposite(G.edge[Head(es)], w).v
             c == L.inedgecount[u] - 1
             L1 == [L EXCEPT !.inedgecount[u] = c,
                             !.available = IF c = 0 THEN Append(@, u) ELSE @]
         IN  tsort_edges(G, L1, w, Tail(es))

\* one run of the body of the while loop
tsort_iteration(G, L) ==
    LET n == Len(L.available)
        w == L.available[n]
        L1 == [L EXCEPT !.available = SubSeq(@, 1, n - 1),
                        !.tsort = Append(@, w)]
    IN  tsort_edges(G, L1, w, get_edges(G, w).ret.items)

tsort_return(G, L) ==
    IF Len(L.tsort) = num_vertices(G) THEN List(L.tsort) ELSE None

TsortLocals == [inedgecount |-> inedgecount, tsort |-> tsort, available |-> available]

ApplyTsort(L) ==
    /\ inedgecount' = L.inedgecount
    /\ tsort' = L.tsort
    /\ available' = L.available

RECURSIVE AddArcs(_, _, _)
AddArcs(G, es, i) ==
    IF i > Len(es) THEN G
    ELSE AddArcs(add_edge(G, es[i][1], es[i][2], 1).graph, es, i + 1)

Arcs == (1..Len(TsortLabels)) \X (1..Len(TsortLabels))

TsortInit ==
    /\ HeapInit
    /\ input = <<>>
    /\ out = <<>>
    /\ pc = 0
    /\ \E n \in 0..TsortEdges :
          \E es \in [1..n -> Arcs] :
             LET G == AddArcs(AddVertices(EmptyGraph(TRUE), TsortLabels, 1), es, 1)
             IN  /\ structure = G.structure
                 /\ inedges = G.inedges
                 /\ label = G.label
                 /\ edge = G.edge
                 /\ directed = G.directed
                 /\ joined = {es[i] : i \in 1..n}
    /\ DijkstraIdle
    /\ OtherIdle

\* a call of topological_sort(), up to the first test of the loop condition
TsortCall ==
    /\ tphase \in {"idle", "done"}
    /\ ApplyTsort(tsort_start(Graph))
    /\ tphase' = "loop"
    /\ UNCHANGED <<heapVars, callVars, sortVars, graphVars, dijkstraVars, mapVars, listVars, moreVars>>

\* the loop condition holds and the loop body runs
TsortIter ==
    /\ tphase = "loop"
    /\ Len(available) > 0
    /\ ApplyTsort(tsort_iteration(Graph, TsortLocals))
    /\ UNCHANGED <<heapVars, callVars, sortVars, graphVars, dijkstraVars, tphase, mapVars, listVars, moreVars>>

\* the loop condition fails and topological_sort returns
TsortReturn ==
    /\ tphase = "loop"
    /\ Len(available) = 0
    /\ tphase' = "done"
    /\ op' = "topological_sort"
    /\ arg' = NoArg
    /\ ret' = tsort_return(Graph, TsortLocals)
    /\ UNCHANGED <<heapVars, sortVars, graphVars, dijkstraVars, tsort, available, inedgecount, mapVars, listVars, moreVars>>

TsortNext ==
    \/ TsortCall
    \/ TsortIter
    \/ TsortReturn

TsortSpec == TsortInit /\ [][TsortNext]_vars

\* ---------------------------------------------------------------------
\* MapSpec: HashMapLP.  _map is a function on 0..len-1 whose cells are None,
\* the integer 0 that delitem leaves (Available) or an Element; keys are
\* small non-negative integers, which hash() maps to themselves.  dict is
\* the reference dictionary the calls are compared with.

MapKeys == {0, 1, 2, 4}
MapValues == {"x", "y"}
InitSpaces == {2, 3}

Available == [kind |-> "available"]
MapElement(k, v) == [kind |-> "element", key |-> k, value |-> v]
\* a call that never returns
Loops == [kind |-> "loops"]

HashMap == [map |-> map, size |-> mapsize]
EmptyMap(sz) == [map |-> [i \in 0..(sz - 1) |-> None], size |-> 0]

hashvalue(M, ph) == ph % Len0(M.map)

\* The while loop of getitem from cell hv on.  "inBlock = False" binds a
\* name the loop does not test, so inblock stays True: when hv is back at
\* oldhv the loop is where it began, the map unchanged, and goes round
\* again for ever.
RECURSIVE getitem_loop(_, _, _, _)
getitem_loop(M, k, hv, oldhv) ==
    IF M.map[hv] = None THEN None
    ELSE IF M.map[hv].kind = "element" /\ M.map[hv].key = k
         THEN Plain(M.map[hv].value)
         ELSE LET nx == (hv + 1) % Len0(M.map)
              IN  IF nx = oldhv THEN Loops ELSE getitem_loop(M, k, nx, oldhv)

getitem(M, k) ==
    [hm |-> M, ret |-> getitem_loop(M, k, hashvalue(M, k), hashvalue(M, k))]

RECURSIVE contains_loop(_, _, _, _)
contains_loop(M, k, hv, oldhv) ==
    IF M.map[hv] = None THEN Plain(FALSE)
    ELSE IF M.map[hv].kind = "element" /\ M.map[hv].key = k
         THEN Plain(TRUE)
         ELSE LET nx == (hv + 1) % Len0(M.map)
              IN  IF nx = oldhv THEN Loops ELSE contains_loop(M, k, nx, oldhv)

contains(M, k) ==
    [hm |-> M, ret |-> contains_loop(M, k, hashvalue(M, k), hashvalue(M, k))]

RECURSIVE delitem_loop(_, _, _, _)
delitem_loop(M, k, hv, oldhv) ==
    IF M.map[hv] = None THEN [hm |-> M, ret |-> None]
    ELSE IF M.map[hv].kind = "element" /\ M.map[hv].key = k
         THEN [hm |-> [M EXCEPT !.map[hv] = Available, !.size = @ - 1],
               ret |-> Plain(M.map[hv].value)]
         ELSE LET nx == (hv + 1) % Len0(M.map)
              IN  IF nx = oldhv THEN [hm |-> M, ret |-> Loops]
                  ELSE delitem_loop(M, k, nx, oldhv)

delitem(M, k) == delitem_loop(M, k, hashvalue(M, k), hashvalue(M, k))

maplength(M) == [hm |-> M, ret |-> Plain(M.size)]

\* The while loop of setitem from cell pos on, firstfree being -1 for None;
\* its value is the pos, found and firstfree the loop ends with.
RECURSIVE setitem_loop(_, _, _, _, _)
setitem_loop(M, k, pos, oldpos, firstfree) ==
    LET n == Len0(M.map)
        c == M.map[pos]
        isNone == c = None
        isFree == ~isNone /\ c.kind # "element"
        found == ~isNone /\ ~isFree /\ c.key = k
        ff == IF isFree /\ firstfree = -1 THEN pos ELSE firstfree
        nx == IF isNone \/ found THEN pos ELSE (pos + 1) % n
        inblock == ~isNone /\ nx # oldpos
    IN  IF inblock /\ ~found
        THEN setitem_loop(M, k, nx, oldpos, ff)
        ELSE [pos |-> nx, found |-> found, firstfree |-> ff]

RECURSIVE setitem(_, _, _)
RECURSIVE resize(_, _)
RECURSIVE rehash(_, _, _)
\* size / len(map) > 0.5 is 2 * size > len(map)
setitem(M, k, v) ==
    LET l == setitem_loop(M, k, hashvalue(M, k), hashvalue(M, k), -1)
        M1 == IF l.found
              THEN [M EXCEPT !.map[l.pos].value = v]
              ELSE IF l.firstfree # -1
                   THEN [M EXCEPT !.map[l.firstfree] = MapElement(k, v), !.size = @ + 1]
                   ELSE [M EXCEPT !.map[l.pos] = MapElement(k, v), !.size = @ + 1]
    IN  IF 2 * M1.size > Len0(M1.map)
        THEN [hm |-> resize(M1, 2), ret |-> None]
        ELSE [hm |-> M1, ret |-> None]

\* for elt in oldmap, from cell i on
rehash(M, oldmap, i) ==
    IF i >= Len0(oldmap) THEN M
    ELSE IF oldmap[i] # None /\ oldmap[i].kind = "element"
         THEN rehash(setitem(M, oldmap[i].key, oldmap[i].value).hm, oldmap, i + 1)
         ELSE rehash(M, oldmap, i + 1)

resize(M, factor) == rehash(EmptyMap(Len0(M.map) * factor), M.map, 0)

ApplyMap(M) ==
    /\ map' = M.map
    /\ mapsize' = M.size

\* a call that returns; after a call that never returns nothing follows
MapCall(name, a, res, d) ==
    /\ ret # Loops
    /\ op' = name
    /\ arg' = a
    /\ ret' = res.ret
    /\ ApplyMap(res.hm)
    /\ dict' = IF res.ret = Loops THEN dict ELSE d
    /\ UNCHANGED <<heapVars, sortVars, graphVars, dijkstraVars, tsortVars, listVars, moreVars>>

MapInit ==
    /\ HeapInit
    /\ input = <<>>
    /\ out = <<>>
    /\ pc = 0
    /\ NoGraph
    /\ DijkstraIdle
    /\ TsortIdle
    /\ \E sz \in InitSpaces :
          /\ map = EmptyMap(sz).map
          /\ mapsize = EmptyMap(sz).size
    /\ dict = <<>>
    /\ NoList
    /\ MoreIdle

SetItem ==
    \E k \in MapKeys, v \in MapValues :
       LET res == setitem(HashMap, k, v)
       IN  /\ Len0(res.hm.map) <= MaxSpace
           /\ MapCall("setitem", [k |-> k, v |-> v], res, Extend(dict, k, v))

DelItem ==
    \E k \in MapKeys :
       MapCall("delitem", [k |-> k, v |-> ""], delitem(HashMap, k),
               Drop(dict, k))

GetItem ==
    \E k \in MapKeys :
       MapCall("getitem", [k |-> k, v |-> ""], getitem(HashMap, k), dict)

Contains ==
    \E k \in MapKeys :
       MapCall("contains", [k |-> k, v |-> ""], contains(HashMap, k), dict)

MapLength == MapCall("length", [k |-> 0, v |-> ""], maplength(HashMap), dict)

MapNext ==
    \/ SetItem
    \/ DelItem
    \/ GetItem
    \/ Contains
    \/ MapLength

MapSpec == MapInit /\ [][MapNext]_vars

\* ---------------------------------------------------------------------
\* ListSpec: the singly linked lists of SLL.py and SLL2.py.  Nodes are
\* object identities, 0 standing for None; the list of SLL2.py (tailed)
\* has the reference last as well, which SLL.py leaves at None.

ListItems == {"a", "b"}
NodeIds == 1..(MaxNodes + 2)
AttributeError == [kind |-> "AttributeError"]

SLinkedList == [node |-> node, first |-> first, last |-> lastnode,
                size |-> listsize, tailed |-> tailed]
EmptyList(t) == [node |-> <<>>, first |-> 0, last |-> 0, size |-> 0, tailed |-> t]

\* SLLNode(item, nextnode): a new object
NewNode(L) == CHOOSE n \in NodeIds : n \notin DOMAIN L.node /\
                  \A m \in NodeIds : m \notin DOMAIN L.node => n <= m
SLLNode(item, nextnode) == [element |-> item, next |-> nextnode]

\* the nodes from n on along next
RECURSIVE Chain(_, _)
Chain(L, n) == IF n = 0 THEN <<>> ELSE <<n>> \o Chain(L, L.node[n].next)

\* nodes that neither first nor last leads to are garbage
ListCollect(L) ==
    LET c == Chain(L, L.first) \o Chain(L, L.last)
        keep == {c[i] : i \in 1..Len(c)}
    IN  [L EXCEPT !.node = [n \in keep |-> L.node[n]]]

add_first(L, element) ==
    LET n == NewNode(L)
        L1 == [L EXCEPT !.node = Extend(@, n, SLLNode(element, L.first)),
                        !.first = n,
                        !.last = IF L.tailed /\ L.size = 0 THEN n ELSE @,
                        !.size = @ + 1]
    IN  [list |-> ListCollect(L1), ret |-> None]

remove_first(L) ==
    IF L.size = 0 THEN [list |-> L, ret |-> None]
    ELSE IF L.first = 0
         \* self.first.element with first None
         THEN [list |-> L, ret |-> AttributeError]
         ELSE LET L1 == [L EXCEPT !.first = L.node[L.first].next,
                                  !.size = @ - 1,
                                  !.last = IF L.tailed /\ L.size - 1 = 0 THEN 0 ELSE @]
              IN  [list |-> ListCollect(L1), ret |-> Plain(L.node[L.first].element)]

add_last(L, element) ==
    LET n == NewNode(L)
        L0 == [L EXCEPT !.node = Extend(@, n, SLLNode(element, 0))]
        c == Chain(L, L.first)
    IN  IF L.first = 0
        THEN [list |-> ListCollect([L0 EXCEPT !.first = n,
                                              !.last = IF L.tailed THEN n ELSE @,
                                              !.size = @ + 1]),
              ret |-> None]
        ELSE IF ~L.tailed
             THEN [list |-> [L0 EXCEPT !.node[c[Len(c)]].next = n, !.size = @ + 1],
                   ret |-> None]
             ELSE IF L.last = 0
                  \* self.last.next = new_node with last None
                  THEN [list |-> L, ret |-> AttributeError]
                  ELSE [list |-> ListCollect([L0 EXCEPT !.node[L.last].next = n,
                                                        !.last = n,
                                                        !.size = @ + 1]),
                        ret |-> None]

\* SLL2.py: while node != self.last, from node on; its value is prev and
\* node when the loop ends, or raised when node.next is read of None
RECURSIVE to_last(_, _, _)
to_last(L, prev, n) ==
    IF n = L.last THEN [raised |-> FALSE, prev |-> prev, node |-> n]
    ELSE IF n = 0 THEN [raised |-> TRUE, prev |-> prev, node |-> n]
         ELSE to_last(L, n, L.node[n].next)

remove_last(L) ==
    IF L.first = 0 THEN [list |-> L, ret |-> None]
    ELSE IF L.node[L.first].next = 0
         \* the only element: first (and last) become None, size is kept
         THEN [list |-> ListCollect([L EXCEPT !.first = 0,
                                              !.last = IF L.tailed THEN 0 ELSE @]),
               ret |-> Plain(L.node[L.first].element)]
         ELSE IF ~L.tailed
              THEN LET c == Chain(L, L.first)
                       prev == c[Len(c) - 1]
                       n == c[Len(c)]
                   IN  [list |-> ListCollect([L EXCEPT !.node[prev].next = 0,
                                                       !.size = @ - 1]),
                        ret |-> Plain(L.node[n].element)]
              ELSE LET w == to_last(L, 0, L.first)
                   IN  \* node.next of None in the loop, self.last.element
                       \* with last None, prev.next = None with prev None
                       IF w.raised \/ L.last = 0 \/ w.prev = 0
                       THEN [list |-> L, ret |-> AttributeError]
                       ELSE [list |-> ListCollect([L EXCEPT !.node[w.prev].next = 0,
                                                            !.last = w.prev,
                                                            !.size = @ - 1]),
                             ret |-> Plain(L.node[L.last].element)]

delete_node(L, k) ==
    LET c == Chain(L, L.first)
        hits == {i \in 1..Len(c) : L.node[c[i]].element = k}
    IN  IF L.first # 0 /\ L.node[L.first].element = k
        THEN [list |-> ListCollect([L EXCEPT !.first = L.node[L.first].next,
                                             !.size = @ - 1]),
              ret |-> None]
        ELSE IF hits = {}
             THEN [list |-> L, ret |-> None]
             ELSE LET i == CHOOSE h \in hits : \A g \in hits : h <= g
                  IN  [list |-> ListCollect([L EXCEPT !.node[c[i - 1]].next = L.node[c[i]].next,
                                                      !.size = @ - 1]),
                       ret |-> None]

listlength(L) == [list |-> L, ret |-> Plain(L.size)]

\* SLL2.py: self.last.element, an AttributeError when last is None
get_last(L) ==
    IF L.size = 0 THEN [list |-> L, ret |-> None]
    ELSE IF L.last = 0 THEN [list |-> L, ret |-> AttributeError]
         ELSE [list |-> L, ret |-> Plain(L.node[L.last].element)]

ApplyList(L) ==
    /\ node' = L.node
    /\ first' = L.first
    /\ lastnode' = L.last
    /\ listsize' = L.size
    /\ tailed' = L.tailed

ListCall(name, a, res) ==
    /\ op' = name
    /\ arg' = a
    /\ ret' = res.ret
    /\ ApplyList(res.list)
    /\ UNCHANGED <<heapVars, sortVars, graphVars, dijkstraVars, tsortVars, mapVars, moreVars>>

ListInit ==
    /\ HeapInit
    /\ input = <<>>
    /\ out = <<>>
    /\ pc = 0
    /\ NoGraph
    /\ DijkstraIdle
    /\ TsortIdle
    /\ NoMap
    /\ \E t \in BOOLEAN :
          /\ node = EmptyList(t).node
          /\ first = EmptyList(t).first
          /\ lastnode = EmptyList(t).last
          /\ listsize = EmptyList(t).size
          /\ tailed = EmptyList(t).tailed
    /\ MoreIdle

\* the nodes in use and the counter stay within the bounds
Fits(L) == Cardinality(DOMAIN L.node) <= MaxNodes /\ L.size <= MaxCount

AddFirst ==
    \E x \in ListItems :
       LET res == add_first(SLinkedList, x)
       IN  Fits(res.list) /\ ListCall("add_first", [k |-> x], res)

AddLast ==
    \E x \in ListItems :
       LET res == add_last(SLinkedList, x)
       IN  Fits(res.list) /\ ListCall("add_last", [k |-> x], res)

RemoveFirst == ListCall("remove_first", [k |-> ""], remove_first(SLinkedList))

RemoveLast == ListCall("remove_last", [k |-> ""], remove_last(SLinkedList))

DeleteNode ==
    \E x \in ListItems :
       ListCall("delete_node", [k |-> x], delete_node(SLinkedList, x))

ListLength == ListCall("length", [k |-> ""], listlength(SLinkedList))

ListNext ==
    \/ AddFirst
    \/ AddLast
    \/ RemoveFirst
    \/ RemoveLast
    \/ DeleteNode
    \/ ListLength

ListSpec == ListInit /\ [][ListNext]_vars

\* ---------------------------------------------------------------------
\* QueueSpec: QueueV2.  body is a function on 0..len-1; the k-th item
\* enqueued is Plain(k), so that a dequeued item tells when it was enqueued.

Queue == [body |-> qbody, head |-> qhead, tail |-> qtail, size |-> qsize]
EmptyQueue == [body |-> [i \in 0..(InitialCells - 1) |-> None],
               head |-> 0, tail |-> 0, size |-> 0]

\* while oldpos <= until: self.body[pos] = oldbody[oldpos], both moving on
RECURSIVE grow_copy(_, _, _, _, _)
grow_copy(B, oldbody, pos, oldpos, until) ==
    IF oldpos > until THEN [body |-> B, pos |-> pos]
    ELSE grow_copy([B EXCEPT ![pos] = oldbody[oldpos]], oldbody,
                   pos + 1, oldpos + 1, until)

\* grow as it would be with the loop for data that is not wrapped around only
grow_unwrapped(Q) ==
    LET new == [i \in 0..(2 * Q.size - 1) |-> None]
    IN  [Q EXCEPT !.body = grow_copy(new, Q.body, 0, Q.head, Q.tail).body,
                  !.head = 0,
                  !.tail = Q.size]

grow(Q) ==
    LET new == [i \in 0..(2 * Q.size - 1) |-> None]
        B == IF Q.head < Q.tail
             THEN grow_copy(new, Q.body, 0, Q.head, Q.tail).body
             ELSE LET c == grow_copy(new, Q.body, 0, Q.head, Len0(Q.body) - 1)
                  IN  grow_copy(c.body, Q.body, c.pos, 0, Q.tail).body
    IN  [Q EXCEPT !.body = B, !.head = 0, !.tail = Q.size]

enqueue(Q, item) ==
    IF Q.size = 0
    THEN [queue |-> [Q EXCEPT !.body[0] = item, !.size = 1, !.tail = 1], ret |-> None]
    ELSE LET Q1 == [Q EXCEPT !.body[Q.tail] = item, !.size = @ + 1]
         IN  IF Q1.size = Len0(Q1.body)
             THEN [queue |-> grow(Q1), ret |-> None]
             ELSE IF Q1.tail = Len0(Q1.body) - 1
                  THEN [queue |-> [Q1 EXCEPT !.tail = 0], ret |-> None]
                  ELSE [queue |-> [Q1 EXCEPT !.tail = @ + 1], ret |-> None]

dequeue(Q) ==
    IF Q.size = 0 THEN [queue |-> Q, ret |-> None]
    ELSE LET Q1 == [Q EXCEPT !.body[Q.head] = None]
         IN  IF Q.size = 1
             THEN [queue |-> [Q1 EXCEPT !.head = 0, !.tail = 0, !.size = 0],
                   ret |-> Q.body[Q.head]]
             ELSE IF Q.head = Len0(Q.body) - 1
                  THEN [queue |-> [Q1 EXCEPT !.head = 0, !.size = @ - 1],
                        ret |-> Q.body[Q.head]]
                  ELSE [queue |-> [Q1 EXCEPT !.head = @ + 1, !.size = @ - 1],
                        ret |-> Q.body[Q.head]]

queuelength(Q) == [queue |-> Q, ret |-> Plain(Q.size)]

QueueCall(name, res, q, n) ==
    /\ op' = name
    /\ arg' = NoArg
    /\ ret' = res.ret
    /\ qbody' = res.queue.body
    /\ qhead' = res.queue.head
    /\ qtail' = res.queue.tail
    /\ qsize' = res.queue.size
    /\ queued' = q
    /\ enqueued' = n
    /\ UNCHANGED <<heapVars, sortVars, graphVars, dijkstraVars, tsortVars, mapVars, listVars, treeVars>>

QueueInit ==
    /\ HeapInit
    /\ input = <<>>
    /\ out = <<>>
    /\ pc = 0
    /\ NoGraph
    /\ DijkstraIdle
    /\ TsortIdle
    /\ NoMap
    /\ NoList
    /\ qbody = EmptyQueue.body
    /\ qhead = EmptyQueue.head
    /\ qtail = EmptyQueue.tail
    /\ qsize = EmptyQueue.size
    /\ queued = <<>>
    /\ enqueued = 0
    /\ NoTree

Enqueue ==
    /\ enqueued < MaxEnqueues
    /\ QueueCall("enqueue", enqueue(Queue, Plain(enqueued + 1)),
                 Append(queued, Plain(enqueued + 1)), enqueued + 1)

Dequeue ==
    QueueCall("dequeue", dequeue(Queue),
              IF queued = <<>> THEN queued ELSE Tail(queued), enqueued)

QueueLength == QueueCall("length", queuelength(Queue), queued, enqueued)

QueueNext ==
    \/ Enqueue
    \/ Dequeue
    \/ QueueLength

QueueSpec == QueueInit /\ [][QueueNext]_vars

\* ---------------------------------------------------------------------
\* TreeSpec: the binary search tree of BST.py.  Nodes are object
\* identities, 0 standing for None; the caller holds node 1, the root.
\* Items are positive integers and 0 stands for the element None, which
\* Python cannot compare with an item: the comparison raises TypeError.

TreeItems == {1, 2, 3, 4}
TreeNodes == 1..(Cardinality(TreeItems) + 1)
Root == 1

BSTNode(item) == [element |-> item, leftchild |-> 0, rightchild |-> 0, parent |-> 0]
NewTreeNode(T) == CHOOSE n \in TreeNodes : n \notin DOMAIN T /\
                     \A m \in TreeNodes : m \notin DOMAIN T => n <= m

\* the node holding searchitem at or below n, 0 for None, -1 for TypeError
RECURSIVE search_node(_, _, _)
search_node(T, n, searchitem) ==
    IF T[n].element = 0 THEN -1
    ELSE IF T[n].element > searchitem
         THEN IF T[n].leftchild # 0
              THEN search_node(T, T[n].leftchild, searchitem)
              ELSE 0
         ELSE IF T[n].element < searchitem
              THEN IF T[n].rightchild # 0
                   THEN search_node(T, T[n].rightchild, searchitem)
                   ELSE 0
              ELSE n

search(T, searchitem) ==
    LET n == search_node(T, Root, searchitem)
    IN  IF n = -1 THEN [tree |-> T, ret |-> TypeError]
        ELSE IF n # 0 THEN [tree |-> T, ret |-> Plain(T[n].element)]
             ELSE [tree |-> T, ret |-> None]

\* the tree and the node obj was added at, 0 for None, -1 for TypeError
RECURSIVE add_internal(_, _, _)
add_internal(T, n, obj) ==
    IF T[n].element = 0 THEN [tree |-> T, node |-> -1]
    ELSE IF T[n].element > obj
         THEN IF T[n].leftchild # 0
              THEN add_internal(T, T[n].leftchild, obj)
              ELSE LET c == NewTreeNode(T)
                   IN  [tree |-> Extend([T EXCEPT ![n].leftchild = c], c,
                                        [BSTNode(obj) EXCEPT !.parent = n]),
                        node |-> c]
         ELSE IF T[n].element < obj
              THEN IF T[n].rightchild # 0
                   THEN add_internal(T, T[n].rightchild, obj)
                   ELSE LET c == NewTreeNode(T)
                        IN  [tree |-> Extend([T EXCEPT ![n].rightchild = c], c,
                                             [BSTNode(obj) EXCEPT !.parent = n]),
                             node |-> c]
              ELSE [tree |-> T, node |-> 0]

treeadd(T, obj) ==
    LET added == add_internal(T, Root, obj)
    IN  IF added.node = -1 THEN [tree |-> T, ret |-> TypeError]
        ELSE IF added.node # 0
             THEN [tree |-> added.tree, ret |-> Plain(added.tree[added.node].element)]
             ELSE [tree |-> added.tree, ret |-> None]

RECURSIVE findmaxnode(_, _)
findmaxnode(T, n) ==
    IF T[n].rightchild # 0 THEN findmaxnode(T, T[n].rightchild) ELSE n

\* a node that nothing refers to any more; the root is held by the caller
Unlink(T, n) == IF n = Root THEN T ELSE Drop(T, n)

\* self._pullup(node) for self = n and node = c
pullup(T, n, c) ==
    LET T1 == [T EXCEPT ![n].element = T[c].element,
                        ![n].leftchild = T[c].leftchild,
                        ![n].rightchild = T[c].rightchild]
        T2 == IF T[c].leftchild # 0
              THEN [T1 EXCEPT ![T[c].leftchild].parent = n] ELSE T1
        T3 == IF T[c].rightchild # 0
              THEN [T2 EXCEPT ![T[c].rightchild].parent = n] ELSE T2
    IN  Unlink([T3 EXCEPT ![c] = BSTNode(0)], c)

RECURSIVE remove_node(_, _)
remove_node(T, n) ==
    IF T[n].leftchild # 0 /\ T[n].rightchild # 0
    THEN LET biggest == findmaxnode(T, T[n].leftchild)
         IN  [tree |-> remove_node([T EXCEPT ![n].element = T[biggest].element], biggest).tree,
              ret |-> Plain(T[n].element)]
    ELSE IF T[n].leftchild = 0 /\ T[n].rightchild = 0
         THEN LET p == T[n].parent
                  T1 == IF p # 0
                        THEN IF T[p].leftchild = n
                             THEN [T EXCEPT ![p].leftchild = 0]
                             ELSE [T EXCEPT ![p].rightchild = 0]
                        ELSE T
              IN  [tree |-> Unlink([T1 EXCEPT ![n] = BSTNode(0)], n),
                   ret |-> Plain(T[n].element)]
         ELSE IF T[n].rightchild = 0
              THEN [tree |-> pullup(T, n, T[n].leftchild), ret |-> Plain(T[n].element)]
              ELSE [tree |-> pullup(T, n, T[n].rightchild), ret |-> Plain(T[n].element)]

treeremove(T, searchitem) ==
    LET n == search_node(T, Root, searchitem)
    IN  IF n = -1 THEN [tree |-> T, ret |-> TypeError]
        ELSE IF n = 0 THEN [tree |-> T, ret |-> None]
             ELSE remove_node(T, n)

\* a call and the items p it leaves present when it does not raise
TreeCall(name, x, res, p) ==
    /\ op' = name
    /\ arg' = [h |-> 0, k |-> x]
    /\ ret' = res.ret
    /\ tree' = res.tree
    /\ present' = IF res.ret = TypeError THEN present ELSE p
    /\ UNCHANGED <<heapVars, sortVars, graphVars, dijkstraVars, tsortVars, mapVars, listVars, queueVars>>

TreeInit ==
    /\ HeapInit
    /\ input = <<>>
    /\ out = <<>>
    /\ pc = 0
    /\ NoGraph
    /\ DijkstraIdle
    /\ TsortIdle
    /\ NoMap
    /\ NoList
    /\ NoQueue
    /\ \E item \in TreeItems :
          /\ tree = <<BSTNode(item)>>
          /\ present = {item}

TreeAdd ==
    \E x \in TreeItems : TreeCall("add", x, treeadd(tree, x), present \cup {x})

TreeRemove ==
    \E x \in TreeItems : TreeCall("remove", x, treeremove(tree, x), present \ {x})

TreeSearch ==
    \E x \in TreeItems : TreeCall("search", x, search(tree, x), present)

TreeNext ==
    \/ TreeAdd
    \/ TreeRemove
    \/ TreeSearch

TreeSpec == TreeInit /\ [][TreeNext]_vars

\* =====================================================================
\* Properties of Heap_APQ
\* =====================================================================
Slots == 0..(size - 1)

\* C1 (HeapSpec): after any sequence of add, remove_min, update_key and
\* remove calls on live handles, for every slot i > 0 the key in slot
\* (i-1)//2 is less than or equal to the key in slot i.
HeapOrderInv ==
    \A i \in 1..(size - 1) : key[body[(i - 1) \div 2]] <= key[body[i]]

\* a queue of depth two whose last element, in the right subtree, has a
\* smaller key than the elements of slots 1 and 3 in the left subtree: the
\* queue in which remove of slot 3 or 4 has to bubble the moved element up
HeapOrderWitness ==
    /\ size >= 6
    /\ key[body[5]] < key[body[1]]
    /\ key[body[5]] < key[body[3]]
    /\ key[body[5]] < key[body[4]]

\* C2 (Spec): after any sequence of calls, every element of the queue sits
\* in the slot its _index names: body[i]._index = i for all i < size.
IndexInv ==
    \A i \in Slots : body[i] \in Live /\ index[body[i]] = i

\* remove(h) took the root out of a queue of four, so the last element was
\* moved into slot 0 and bubbled down
IndexWitness ==
    /\ op = "remove"
    /\ ret.kind = "pair"
    /\ size = 3
    /\ ret.key < key[body[0]]
    /\ key[body[1]] < key[body[2]]

\* C3 (Spec): on a non-empty queue remove_min returns the (value, key) of an
\* element whose key is minimal, removes that element and no other, and
\* leaves the key and value of every other element as they were.
RemoveMinCorrect ==
    [][(op' = "remove_min" /\ size > 0) =>
          \E m \in Live :
             /\ ret' = Pair(value[m], key[m])
             /\ \A h \in Live : key[m] <= key[h]
             /\ size' = size - 1
             /\ Live' = Live \ {m}
             /\ {body'[i] : i \in 0..(size' - 1)} = Live'
             /\ \A h \in Live' : key'[h] = key[h] /\ value'[h] = value[h]]_vars

\* remove_min has returned the root of a queue of at least three elements
RemoveMinWitness ==
    /\ op = "remove_min"
    /\ ret.kind = "pair"
    /\ size >= 2
    /\ ret.key < key[body[0]]

\* C4 (SortSpec): whatever the keys added to an empty queue and their order,
\* remove_min until the queue is empty returns every key added exactly once
\* and in non-decreasing order.
Count(s, k) == Cardinality({i \in 1..Len(s) : s[i] = k})

SortedOut ==
    /\ \A i \in 1..(Len(out) - 1) : out[i] <= out[i + 1]
    /\ (pc = Len(input) /\ size = 0) =>
          /\ Len(out) = Len(input)
          /\ \A k \in SortKeys : Count(out, k) = Count(input, k)

\* the example: 5,3,8,1,4 come out as 1,3,4,5,8
SortedOutWitness ==
    /\ input = <<5, 3, 8, 1, 4>>
    /\ out = <<1, 3, 4, 5, 8>>
    /\ size = 0

\* C5 (Spec): after update_key(h, k) with k strictly smaller than the key of
\* every other element, the next call, if it is remove_min, returns the
\* value added with h together with k.
StrictMin(h) == \A o \in Live \ {h} : key[h] < key[o]

UpdateKeyThenMin ==
    [][(op = "update_key" /\ StrictMin(arg.h) /\ op' = "remove_min") =>
          ret' = Pair(value[arg.h], arg.k)]_vars

\* update_key has made the element added last, with the largest key, the
\* strict minimum of a queue of four
UpdateKeyWitness ==
    /\ op = "update_key"
    /\ size = 4
    /\ StrictMin(arg.h)
    /\ key[arg.h] = arg.k
    /\ arg.h = 4
    /\ body[0] = 4

\* C6 (Spec): remove(h) on a live handle, whatever its slot, returns the
\* (value, key) of the element and leaves the other elements in the queue.
\* Violated: for the element of the last slot of a queue of two or more,
\* remove raises IndexError after taking the element out.
RemoveReturnsElement ==
    [][(op' = "remove" /\ size > 0) =>
          /\ ret' = Pair(value[arg'.h], key[arg'.h])
          /\ size' = size - 1
          /\ Live' = Live \ {arg'.h}
          /\ {body'[i] : i \in 0..(size' - 1)} = Live'
          /\ \A h \in Live' : key'[h] = key[h] /\ value'[h] = value[h]]_vars

\* C7 (Spec): the key of a live handle is the one add or update_key gave it
\* last, and its value the one it was added with: no call changes the key
\* or value of an element it is not aimed at, update_key(h, k) sets the key
\* of h alone and keeps the length, and get_key(h) returns the key of h.
KeyFrame ==
    [][/\ \A h \in Live \cap Live' :
             /\ value'[h] = value[h]
             /\ ~(op' = "update_key" /\ arg'.h = h) => key'[h] = key[h]
       /\ op' = "update_key" =>
             /\ key'[arg'.h] = arg'.k
             /\ Live' = Live
             /\ size' = size
       /\ op' = "add" =>
             /\ ret'.h \notin Live
             /\ Live' = Live \cup {ret'.h}
             /\ key'[ret'.h] = arg'.k
       /\ op' = "get_key" => ret' = Plain(key[arg'.h])]_vars

\* get_key on an element that is no longer in the slot it was added at
KeyFrameWitness ==
    /\ op = "get_key"
    /\ size >= 3
    /\ arg.h = 3
    /\ index[3] = 0
    /\ ret = Plain(key[3])

\* C8 (Spec): on a non-empty queue min() returns what a remove_min called
\* next returns, and min, get_key, is_empty and length change nothing.
MinPeek ==
    [][/\ (op = "min" /\ size > 0 /\ op' = "remove_min") => ret' = ret
       /\ op' \in {"min", "get_key", "is_empty", "length"} =>
             UNCHANGED heapVars]_vars

\* min() on a queue whose last element has a larger key than the root
MinPeekWitness ==
    /\ op = "min"
    /\ ret.kind = "pair"
    /\ size >= 3
    /\ ret.key < key[body[size - 1]]

\* C9 (Spec): on an empty queue remove_min() and remove(handle) return None
\* and change nothing, and an add called next works as on a new queue.
EmptyRemove ==
    [][/\ (size = 0 /\ op' \in {"remove_min", "remove"}) =>
             /\ ret' = None
             /\ UNCHANGED heapVars
       /\ (size = 0 /\ op \in {"remove_min", "remove"} /\ op' = "add") =>
             /\ size' = 1
             /\ ret' = Handle(body'[0])
             /\ key'[body'[0]] = arg'.k
             /\ index'[body'[0]] = 0]_vars

\* remove(handle), called with a stale handle on the empty queue, has
\* returned None
EmptyRemoveWitness ==
    /\ op = "remove"
    /\ ret = None
    /\ size = 0
    /\ Len0(body) = 0

\* C10 (Spec): min() on an empty queue signals emptiness through its return
\* value, neither as a (value, key) pair nor as an abort.
\* Violated: min reads _body[0] without a test and raises IndexError.
MinEmptySignals ==
    (op = "min" /\ size = 0) => ret.kind \notin {"pair", "IndexError"}

\* C11 (Spec): the tracked size is the length of the internal array; every
\* add raises it by one, every remove_min or remove on a non-empty queue
\* lowers it by one, no other call changes it (so it is the number of adds
\* minus the number of elements removed); length() returns it and
\* is_empty() is true exactly when it is 0.
SizeTracked ==
    [][/\ size' = Len0(body')
       /\ size' = Cardinality(Live')
       /\ op' = "add" => size' = size + 1
       /\ op' \in {"remove_min", "remove"} =>
             size' = IF size = 0 THEN 0 ELSE size - 1
       /\ op' \notin {"add", "remove_min", "remove"} => size' = size
       /\ op' = "length" => ret' = Plain(Len0(body))
       /\ op' = "is_empty" => ret' = Plain(Len0(body) = 0)]_vars

\* length() has returned 2 after three adds and one removal
SizeTrackedWitness ==
    /\ op = "length"
    /\ ret = Plain(2)
    /\ Len0(body) = 2
    /\ 3 \in Live \/ 4 \in Live

\* =====================================================================
\* Properties of Graph and DirectedGraph
\* =====================================================================
Members == DOMAIN structure

\* C19 (GraphSpec): add_edge(v, w, weight) with v or w not a vertex of the
\* graph returns None and leaves the vertices, the adjacency entries and
\* num_edges() as they were, in a Graph and in a DirectedGraph; an add_edge
\* between two vertices of the graph called next adds its edge.
AddEdgeAbsent ==
    [][/\ (op' = "add_edge" /\ (arg'.v \notin Members \/ arg'.w \notin Members)) =>
             /\ ret' = None
             /\ UNCHANGED graphVars
             /\ num_vertices(Graph)' = num_vertices(Graph)
             /\ num_edges(Graph)' = num_edges(Graph)
       /\ (op = "add_edge" /\ ret = None /\ op' = "add_edge"
              /\ arg'.v \in Members /\ arg'.w \in Members) =>
             /\ ret'.kind = "edge"
             /\ DictGet(structure'[arg'.v], arg'.w) = ret'.e
             /\ edge'[ret'.e] = [vertices |-> <<arg'.v, arg'.w>>, element |-> arg'.x]]_vars

\* add_edge from a vertex of a DirectedGraph that has an edge to a Vertex
\* object outside the graph has returned None
AddEdgeAbsentWitness ==
    /\ op = "add_edge"
    /\ ret = None
    /\ directed
    /\ arg.v \in Members
    /\ arg.w \notin Members
    /\ Len(structure[arg.v]) = 1
    /\ num_edges(Graph) = 1

\* C20 (GraphSpec): get_edges(v) returns None when v is not a vertex of the
\* graph and a list, empty when v has no edges, when it is; in a
\* DirectedGraph the list holds exactly the edges that start at v, in a
\* Graph exactly the edges that have v as an endpoint.
GetEdgesResult ==
    (op = "get_edges") =>
       IF arg.v \notin Members
       THEN ret = None
       ELSE /\ ret.kind = "list"
            /\ \A i, j \in 1..Len(ret.items) : ret.items[i] = ret.items[j] => i = j
            /\ {ret.items[i] : i \in 1..Len(ret.items)} =
                  IF directed
                  THEN {e \in DOMAIN edge : edge[e].vertices[1] = arg.v}
                  ELSE {e \in DOMAIN edge : arg.v \in {edge[e].vertices[1], edge[e].vertices[2]}}

\* get_edges of a vertex of a DirectedGraph that has an edge coming in and
\* none going out has returned the empty list
GetEdgesWitness ==
    /\ op = "get_edges"
    /\ directed
    /\ arg.v \in Members
    /\ ret = List(<<>>)
    /\ Len(inedges[arg.v]) = 1

\* the graph after the step
GraphAfter == [structure |-> structure', inedges |-> inedges', label |-> label',
               edge |-> edge', directed |-> directed']

\* v and w have been joined by an add_edge call: in either argument order
\* for a Graph, in this direction for a DirectedGraph
AlreadyJoined(v, w) == <<v, w>> \in joined \/ (~directed /\ <<w, v>> \in joined)

\* C21 (GraphSpec): add_edge between two vertices that are joined already
\* replaces the edge: num_edges() and the adjacency keys stay as they
\* were, and get_edge(v, w) then returns the new Edge with the new weight,
\* which is the entry under both endpoints.
ReAddReplaces ==
    [][(op' = "add_edge" /\ AlreadyJoined(arg'.v, arg'.w)) =>
          /\ ret'.kind = "edge"
          /\ ret'.e \notin DOMAIN edge
          /\ edge'[ret'.e] = [vertices |-> <<arg'.v, arg'.w>>, element |-> arg'.x]
          /\ \A e \in DOMAIN edge : edge[e].element # arg'.x
          /\ num_edges(GraphAfter) = num_edges(Graph)
          /\ \A u \in Members : DictKeys(structure'[u]) = DictKeys(structure[u])
          /\ get_edge(GraphAfter, arg'.v, arg'.w).ret = ret'
          /\ IF directed
             THEN DictGet(inedges'[arg'.w], arg'.v) = ret'.e
             ELSE /\ DictGet(structure'[arg'.w], arg'.v) = ret'.e
                  /\ get_edge(GraphAfter, arg'.w, arg'.v).ret = ret']_vars

\* in a Graph, add_edge(v, w) after add_edge(w, v) has left one edge, the
\* one with the second weight
ReAddReplacesWitness ==
    /\ op = "add_edge"
    /\ ~directed
    /\ arg.v # arg.w
    /\ joined = {<<arg.v, arg.w>>, <<arg.w, arg.v>>}
    /\ ret.kind = "edge"
    /\ num_edges(Graph) = 1
    /\ edge[ret.e].element = 2

\* C22 (GraphSpec): num_edges() is the number of logical edges: of distinct
\* unordered endpoint pairs joined in a Graph, of distinct ordered pairs
\* joined in a DirectedGraph.
\* Violated: add_edge(v, v, x) in a Graph makes the one entry [v][v], and
\* num_edges() halves the sum of the adjacency lengths, rounding down.
EdgeCount ==
    num_edges(Graph) =
       IF directed
       THEN Cardinality(joined)
       ELSE Cardinality({{p[1], p[2]} : p \in joined})

\* C25 (GraphSpec): degree(v) of a Vertex that is not in the graph reports
\* that through its return value, as get_edges does with None.
\* Violated: degree reads self._structure[v] without a test: KeyError.
DegreeAbsentSignals ==
    (op = "degree" /\ arg.v \notin Members) => ret = None

\* C26 (GraphSpec): every adjacency key is a vertex of the graph; in a
\* Graph w is a key of the adjacency dict of v exactly when v is one of
\* w's, and the two entries are one Edge with the endpoints v and w; in a
\* DirectedGraph the out-edge entry [v][w] exists exactly when the in-edge
\* entry [w][v] does, and the two are one Edge from v to w.
AdjacencySymmetric ==
    /\ \A v \in Members : DictKeys(structure[v]) \subseteq Members
    /\ IF directed
       THEN /\ DOMAIN inedges = Members
            /\ \A v \in Members : DictKeys(inedges[v]) \subseteq Members
            /\ \A v, w \in Members :
                  /\ (w \in DictKeys(structure[v])) <=> (v \in DictKeys(inedges[w]))
                  /\ w \in DictKeys(structure[v]) =>
                        /\ DictGet(structure[v], w) = DictGet(inedges[w], v)
                        /\ edge[DictGet(structure[v], w)].vertices = <<v, w>>
       ELSE \A v, w \in Members :
               /\ (w \in DictKeys(structure[v])) <=> (v \in DictKeys(structure[w]))
               /\ w \in DictKeys(structure[v]) =>
                     /\ DictGet(structure[v], w) = DictGet(structure[w], v)
                     /\ edge[DictGet(structure[v], w)].vertices \in {<<v, w>>, <<w, v>>}

\* a DirectedGraph with an edge from the first vertex to the second and
\* another one back
AdjacencySymmetricWitness ==
    /\ directed
    /\ Members = {1, 2}
    /\ DictKeys(structure[1]) = {2}
    /\ DictKeys(inedges[1]) = {2}
    /\ DictGet(structure[1], 2) # DictGet(inedges[1], 2)

\* C23 (LabelSpec): add_vertex(label) makes a vertex that is none of the
\* vertices of the graph, also when one of them has an equal label:
\* num_vertices() grows by one, the new vertex has the label and no edges,
\* and the vertices and edges there were are unchanged.
AddVertexNew ==
    [][op' = "add_vertex" =>
          /\ ret'.kind = "vertex"
          /\ ret'.v \notin Members
          /\ Members' = Members \cup {ret'.v}
          /\ num_vertices(GraphAfter) = num_vertices(Graph) + 1
          /\ label'[ret'.v] = arg'.x
          /\ structure'[ret'.v] = <<>>
          /\ directed => inedges'[ret'.v] = <<>>
          /\ \A u \in Members :
                /\ label'[u] = label[u]
                /\ structure'[u] = structure[u]
                /\ directed => inedges'[u] = inedges[u]
          /\ edge' = edge
          /\ num_edges(GraphAfter) = num_edges(Graph)]_vars

\* add_vertex has made a second vertex with the label of the first, which
\* has an edge
AddVertexNewWitness ==
    /\ op = "add_vertex"
    /\ Members = {1, 2}
    /\ ret = VertexRef(2)
    /\ label[1] = label[2]
    /\ Len(structure[1]) = 1
    /\ Len(structure[2]) = 0

\* C24 (LabelSpec): add_vertex_if_new(label) returns a vertex of the graph
\* with an equal label and changes nothing when there is one, and makes
\* exactly one new vertex with the label otherwise; a second call with the
\* same label right after returns the same vertex.
AddIfNew ==
    [][op' = "add_vertex_if_new" =>
          /\ ret'.kind = "vertex"
          /\ label'[ret'.v] = arg'.x
          /\ IF \E u \in Members : label[u] = arg'.x
             THEN /\ ret'.v \in Members
                  /\ UNCHANGED graphVars
                  /\ num_vertices(GraphAfter) = num_vertices(Graph)
             ELSE /\ ret'.v \notin Members
                  /\ Members' = Members \cup {ret'.v}
                  /\ num_vertices(GraphAfter) = num_vertices(Graph) + 1
                  /\ structure'[ret'.v] = <<>>
                  /\ \A u \in Members :
                        label'[u] = label[u] /\ structure'[u] = structure[u]
                  /\ edge' = edge
          /\ (op = "add_vertex_if_new" /\ arg.x = arg'.x) =>
                (ret' = ret /\ UNCHANGED graphVars)]_vars

\* add_vertex_if_new has returned the first vertex, made two calls ago, of
\* a graph whose second vertex has another label
AddIfNewWitness ==
    /\ op = "add_vertex_if_new"
    /\ Members = {1, 2}
    /\ ret = VertexRef(1)
    /\ label[1] = arg.x
    /\ \E u \in Members : label[u] # arg.x

\* =====================================================================
\* Properties of dijkstra
\* =====================================================================
\* the graph as mathematics: neighbours and edge weights
Adjacent(u) == DictKeys(structure[u])
WeightOf(u, v) == edge[DictGet(structure[u], v)].element
MinOf(S) == CHOOSE x \in S : \A y \in S : x <= y

\* the least total weight of a path of at most n edges from s to each
\* vertex, -1 where there is none (weights not negative)
RECURSIVE PathCost(_, _)
PathCost(s, n) ==
    IF n = 0
    THEN [v \in Members |-> IF v = s THEN 0 ELSE -1]
    ELSE LET d == PathCost(s, n - 1)
         IN  [v \in Members |->
                 LET via == {d[u] + WeightOf(u, v) : u \in {t \in Adjacent(v) : d[t] >= 0}}
                     all == IF d[v] >= 0 THEN via \cup {d[v]} ELSE via
                 IN  IF all = {} THEN -1 ELSE MinOf(all)]

ShortestCost(s) == PathCost(s, Cardinality(Members) - 1)

\* the vertices joined to s by a path of edges
RECURSIVE Reach(_, _)
Reach(S, n) ==
    IF n = 0 THEN S
    ELSE Reach(S \cup UNION {Adjacent(u) : u \in S}, n - 1)

Reachable(s) == Reach({s}, Cardinality(Members) - 1)

Returned == phase = "done" /\ source \in Members

\* C12 (DijkstraSpec): for every graph with non-negative edge weights and
\* every source s in it, the mapping dijkstra(s) returns gives each of its
\* vertices the least total weight of a path from s to it.
ShortestPaths ==
    Returned => \A v \in DOMAIN closed : closed[v].cost = ShortestCost(source)[v]

\* the example: A-B:1, B-C:2, A-C:5, C-D:1 from A gives A:0, B:1, C:3, D:4
ShortestPathsWitness ==
    /\ Returned
    /\ label = <<"A", "B", "C", "D">>
    /\ source = 1
    /\ num_edges(Graph) = 4
    /\ Adjacent(3) = {1, 2, 4}
    /\ Adjacent(1) = {2, 3}
    /\ WeightOf(1, 2) = 1 /\ WeightOf(2, 3) = 2
    /\ WeightOf(1, 3) = 5 /\ WeightOf(3, 4) = 1
    /\ Costs(closed) = <<0, 1, 3, 4>>

\* C13 (DijkstraSpec): the key set of the mapping dijkstra(s) returns is the
\* set of vertices reachable from s by a path of edges.
ReachableClosed ==
    Returned => DOMAIN closed = Reachable(source)

\* from C the run has returned C and D and left out A and B, which are
\* joined to one another
ReachableClosedWitness ==
    /\ Returned
    /\ source = 3
    /\ DOMAIN closed = {3, 4}
    /\ Adjacent(1) = {2}

\* C14 (DijkstraSpec): in the mapping dijkstra(s) returns, s has cost 0 and
\* predecessor None; every other vertex v has a predecessor p in the
\* mapping that is adjacent to v, with cost(v) = cost(p) + weight(p, v);
\* the predecessor links from any vertex lead to s without a repeat.
RECURSIVE LeadsToSource(_, _)
LeadsToSource(v, seen) ==
    IF v = source THEN TRUE
    ELSE IF v \in seen \/ v \notin DOMAIN closed \/ closed[v].pred = None THEN FALSE
    ELSE LeadsToSource(closed[v].pred.v, seen \cup {v})

PredecessorTree ==
    Returned =>
       /\ source \in DOMAIN closed
       /\ closed[source] = [cost |-> 0, pred |-> None]
       /\ \A v \in DOMAIN closed \ {source} :
             /\ closed[v].pred.kind = "vertex"
             /\ LET q == closed[v].pred.v
                IN  /\ q \in DOMAIN closed
                    /\ q \in Adjacent(v)
                    /\ closed[v].cost = closed[q].cost + WeightOf(q, v)
             /\ LeadsToSource(v, {})

\* the example: the predecessors are B:A, C:B, D:C, C having been reached
\* from A first and from B at a lower cost later
PredecessorTreeWitness ==
    /\ Returned
    /\ source = 1
    /\ Adjacent(1) = {2, 3}
    /\ Adjacent(2) = {1, 3}
    /\ Adjacent(4) = {3}
    /\ WeightOf(1, 2) = 1 /\ WeightOf(2, 3) = 2
    /\ WeightOf(1, 3) = 5 /\ WeightOf(3, 4) = 1
    /\ closed[2].pred = VertexRef(1)
    /\ closed[3].pred = VertexRef(2)
    /\ closed[4].pred = VertexRef(3)

\* the vertices stored in open
OpenVertices == {value[h] : h \in Live}

\* a step of a run of dijkstra that has started
Running == phase = "loop" /\ source \in Members

\* C15 (AnyWeightSpec): whatever the edge weights, a vertex moves from
\* unseen to open to closed only: from one test of the loop condition to
\* the next a closed vertex stays closed, is not in open again and keeps its
\* (cost, predecessor) entry, the vertex extracted was in open and not in
\* closed, and no other vertex leaves open.
Monotonic ==
    [][Running =>
          /\ \A v \in DOMAIN closed :
                /\ v \in DOMAIN closed'
                /\ closed'[v] = closed[v]
                /\ v \notin OpenVertices'
                /\ v \notin DOMAIN locs'
          /\ \A v \in DOMAIN closed' \ DOMAIN closed : v \in OpenVertices
          /\ Cardinality(DOMAIN closed' \ DOMAIN closed) <= 1
          /\ \A v \in OpenVertices : v \in OpenVertices' \/ v \in DOMAIN closed'
          /\ \A v \in OpenVertices' : v \notin DOMAIN closed]_vars

\* a run has returned a closed vertex v whose entry was kept although an
\* edge of negative weight from a vertex closed later gives a lower cost
MonotonicWitness ==
    /\ Returned
    /\ \E v \in DOMAIN closed : \E u \in Adjacent(v) \cap DOMAIN closed :
          /\ WeightOf(u, v) < 0
          /\ closed[u].cost + WeightOf(u, v) < closed[v].cost
          /\ closed[u].pred = VertexRef(v)

\* C16 (AnyWeightSpec): at every test of the loop condition open holds at
\* most one element per vertex, the keys of locs are the vertices in open
\* and the keys of preds, locs[w] is the element of open whose value is w,
\* and no vertex is both in closed and in open; when dijkstra returns, locs
\* and preds are empty.
LoopInvariant ==
    /\ phase = "loop" =>
          /\ \A g, h \in Live : value[g] = value[h] => g = h
          /\ DOMAIN locs = OpenVertices
          /\ DOMAIN preds = OpenVertices
          /\ \A w \in DOMAIN locs :
                /\ locs[w] \in Live
                /\ value[locs[w]] = w
                /\ body[index[locs[w]]] = locs[w]
          /\ DOMAIN closed \cap OpenVertices = {}
    /\ phase = "done" => (locs = <<>> /\ preds = <<>> /\ size = 0)

\* the loop condition is tested with two vertices closed and two in open,
\* the one at the root of open having got there by an update of its key
LoopInvariantWitness ==
    /\ phase = "loop"
    /\ Cardinality(DOMAIN closed) = 2
    /\ size = 2
    /\ \E w \in DOMAIN locs : index[locs[w]] = 0 /\ locs[w] > body[1]

\* C17 (AnyWeightSpec): whatever the edge weights, dijkstra from a vertex
\* of the graph terminates with open empty.  Stated through its variant:
\* a test of the loop condition with open empty is followed by the return,
\* and one with open not empty by a pass through the loop body that closes
\* one vertex of the graph not closed before and comes back to the test
\* without an exception, so that there are at most num_vertices() passes.
Terminates ==
    [][Running =>
          IF size = 0
          THEN phase' = "done" /\ size' = 0 /\ closed' = closed
          ELSE /\ phase' = "loop"
               /\ \E v \in Members \ DOMAIN closed :
                     DOMAIN closed' = DOMAIN closed \cup {v}
               /\ Cardinality(DOMAIN closed') <= num_vertices(Graph)]_vars

\* a run on a graph with a cycle of negative total weight has returned
\* after closing all four vertices
TerminatesWitness ==
    /\ Returned
    /\ size = 0
    /\ Cardinality(DOMAIN closed) = 4
    /\ Adjacent(1) = {2, 3}
    /\ 3 \in Adjacent(2)
    /\ WeightOf(1, 2) + WeightOf(2, 3) + WeightOf(1, 3) < 0

\* C18 (RerunSpec): a run of dijkstra changes nothing of the graph and
\* keeps nothing for the next run: every run from a source returns the
\* cost mapping the first run from that source returned, whatever runs
\* from other sources there were in between.
NoStateKept ==
    /\ [](Returned => /\ source \in DOMAIN results
                      /\ Costs(closed) = results[source].costs)
    /\ [][UNCHANGED graphVars]_vars

\* on a graph with an edge of negative weight, a second run from A has
\* returned after runs from B and C
NoStateKeptWitness ==
    /\ Returned
    /\ source = 1
    /\ DOMAIN results = {1, 2, 3}
    /\ results[1].runs = 2
    /\ Adjacent(1) = {2, 3}
    /\ WeightOf(1, 2) < 0
    /\ Costs(closed) = results[1].costs

\* the closed vertices adjacent to w, and what each offers w as a cost
ClosedNeighbours(w) == Adjacent(w) \cap DOMAIN closed
Offer(u, w) == closed[u].cost + WeightOf(u, w)

\* the key of w in open is the least offer of its closed neighbours and
\* preds[w] is a closed neighbour that makes that offer
BestOffer(w) ==
    /\ ClosedNeighbours(w) # {}
    /\ key[locs[w]] = MinOf({Offer(u, w) : u \in ClosedNeighbours(w)})
    /\ preds[w].kind = "vertex"
    /\ preds[w].v \in ClosedNeighbours(w)
    /\ Offer(preds[w].v, w) = key[locs[w]]

\* C34 as stated: at every test of the loop condition, every vertex in
\* open has as key the least offer of its closed neighbours and as
\* predecessor a closed neighbour that makes it.
KeysAreBest == Running => \A w \in OpenVertices : BestOffer(w)

\* C34 as amended: the same for every vertex in open but the source, which
\* is in open at the first test only, with key 0 and predecessor None.
KeysAreBestButSource ==
    Running =>
       /\ \A w \in OpenVertices \ {source} : BestOffer(w)
       /\ source \in OpenVertices =>
             (closed = <<>> /\ key[locs[source]] = 0 /\ preds[source] = None)

\* the loop condition is tested with a vertex in open whose key is the
\* offer of the neighbour closed second, lower than that of the source
KeysAreBestWitness ==
    /\ Running
    /\ DOMAIN closed = {1, 2}
    /\ 3 \in OpenVertices
    /\ Adjacent(3) = {1, 2}
    /\ preds[3] = VertexRef(2)
    /\ Offer(2, 3) < Offer(1, 3)
    /\ key[locs[3]] = Offer(2, 3)

\* the vertices a pass of the loop closes
NewlyClosed == DOMAIN closed' \ DOMAIN closed

\* C35 (DijkstraSpec, weights not negative): the vertex a pass of the loop
\* extracts and closes costs at least as much as every vertex closed before
\* it, and at every test of the loop condition every key in open is at
\* least the cost of every closed vertex.
ClosedInOrder ==
    [][/\ Running =>
             \A v \in NewlyClosed : \A u \in DOMAIN closed :
                closed'[v].cost >= closed[u].cost
       /\ Running' =>
             \A w \in OpenVertices' : \A u \in DOMAIN closed' :
                key'[locs'[w]] >= closed'[u].cost]_vars

\* the loop condition is tested with three vertices closed at costs 0, 1
\* and 3 in that order, and a vertex in open whose key is 4
ClosedInOrderWitness ==
    /\ Running
    /\ DOMAIN closed = {1, 2, 3}
    /\ closed[1].cost = 0 /\ closed[2].cost = 1 /\ closed[3].cost = 3
    /\ closed[3].pred = VertexRef(2)
    /\ 4 \in OpenVertices
    /\ key[locs[4]] = 4

\* C36 (AnyWeightSpec): in a pass of the loop that closes v at cost, an
\* edge to a vertex w in open whose newcost is not below the key of w
\* leaves every local, open included, as it was; from one test of the loop
\* condition to the next a vertex that stays in open keeps its element, its
\* key does not rise, and its predecessor changes only to v and only with a
\* strictly lower key, so that an equal offer of a vertex closed later
\* never replaces the predecessor.
KeepsBetter ==
    [][(Running /\ size > 0) =>
          LET r == remove_min(Heap)
              v == r.ret.value
              cost == r.ret.key
              D1 == [open |-> r.heap,
                     locs |-> Drop(locs, v),
                     preds |-> Drop(preds, v),
                     closed |-> Extend(closed, v, [cost |-> cost, pred |-> preds[v]])]
              es == get_edges(Graph, v).ret.items
          IN  /\ \A j \in 1..Len(es) :
                    LET Dj == relax(Graph, D1, v, cost, SubSeq(es, 1, j - 1), 1)
                        e == Graph.edge[es[j]]
                        w == opposite(e, v).v
                    IN  (/\ w \in DOMAIN Dj.locs
                         /\ cost + e.element >= get_key(Dj.open, Dj.locs[w]).ret.x)
                        => relax(Graph, Dj, v, cost, <<es[j]>>, 1) = Dj
              /\ \A w \in OpenVertices \cap OpenVertices' :
                    /\ locs'[w] = locs[w]
                    /\ key'[locs[w]] <= key[locs[w]]
                    /\ preds'[w] # preds[w] =>
                          (preds'[w] = VertexRef(v) /\ key'[locs[w]] < key[locs[w]])
                    /\ key'[locs[w]] < key[locs[w]] => preds'[w] = VertexRef(v)]_vars

\* the loop condition is tested with vertex 3 in open, the source 1 and
\* then 2 closed, both offering 3 the same cost: the predecessor of 3 is 1
KeepsBetterWitness ==
    /\ Running
    /\ source = 1
    /\ DOMAIN closed = {1, 2}
    /\ 3 \in OpenVertices
    /\ Adjacent(3) = {1, 2}
    /\ Offer(1, 3) = Offer(2, 3)
    /\ key[locs[3]] = Offer(1, 3)
    /\ preds[3] = VertexRef(1)

\* slot p is slot q or lies above it on the way from q to the root
RECURSIVE Above(_, _)
Above(p, q) == IF q <= p THEN p = q ELSE Above(p, (q - 1) \div 2)

\* from queue A to queue B the element e moved along one path between the
\* root and a leaf, and every other element that moved took one step the
\* other way along that path
OnePath(A, B, e) ==
    LET from == A.index[e]
        to == B.index[e]
    IN  /\ Above(from, to) \/ Above(to, from)
        /\ \A p \in 0..(A.size - 1) :
              A.body[p] # B.body[p] =>
                 \/ Above(from, p) /\ Above(p, to)
                 \/ Above(to, p) /\ Above(p, from)
        /\ \A g \in DOMAIN A.index \ {e} :
              \/ B.index[g] = A.index[g]
              \/ to < from /\ A.index[g] = (B.index[g] - 1) \div 2
              \/ from < to /\ B.index[g] = (A.index[g] - 1) \div 2

\* C37 (Spec): a call update_key(h, k) on a queue in heap order is the
\* bubble-up followed by the bubble-down, and at most one of the two swaps
\* anything: if the element rises the bubble-down from its new slot leaves
\* the queue as it is; the element moves along one path between root and
\* leaf and the elements it passes each move one level the other way.
OneDirection ==
    [][(op' = "update_key" /\ HeapOrderInv) =>
          \A e \in {arg'.h} :
          \A H1 \in {[Heap EXCEPT !.key[e] = arg'.k]} :
          \A H2 \in {bubbleup(H1, H1.index[e])} :
          \A H3 \in {bubbledown(H2, H2.index[e], H2.size - 1)} :
              /\ Heap' = H3
              /\ H2 = H1 \/ H3 = H2
              /\ H2.index[e] < H1.index[e] => H3 = H2
              /\ OnePath(Heap, H3, e)]_vars

\* update_key(h, 1) returned with h at the root of a queue of four, above
\* keys 2 and 3 in slots 1 and 3, the path of a rise from slot 3
OneDirectionWitness ==
    /\ op = "update_key"
    /\ arg.k = 1
    /\ size = 4
    /\ index[arg.h] = 0
    /\ key[body[1]] = 2
    /\ key[body[3]] = 3

\* C38 (DijkstraSpec): a call dijkstra(s) with s not a vertex of the graph
\* does not end in an error raised out of the call: after get_edges(s) has
\* returned None the call goes on to return a value.
UnknownSourceReturns ==
    (source \notin Members /\ get_edges(Graph, source).ret = None) => phase # "raised"

\* the element a call bubbles: the one added, the one whose key is
\* updated, the last one, which remove_min and remove move into the gap
Bubbled ==
    CASE op' = "add" -> ret'.h
      [] op' = "update_key" -> arg'.h
      [] OTHER -> body[size - 1]

\* C39 (Spec): a call of add, update_key, remove_min or remove exchanges
\* the bubbled element with elements of another key only: an element that
\* went down a level has a key strictly greater than the bubbled one, an
\* element that went up a level has a key strictly smaller, and one that
\* went up from a right child slot has a key strictly smaller than the
\* left child next to it.
NoTieSwaps ==
    [][(op' \in {"add", "update_key", "remove_min", "remove"} /\ size' > 0) =>
          \A g \in (Live \cap Live') \ {Bubbled} :
             /\ index'[g] > index[g] => key'[Bubbled] < key'[g]
             /\ index'[g] < index[g] =>
                   /\ key'[g] < key'[Bubbled]
                   /\ index[g] % 2 = 0 =>
                         key'[g] < key'[body'[index[g] - 1]]]_vars

\* remove_min returned the pair of key 1 and left three elements of key
\* 2, the one with the greatest payload at the root: no swap was made
NoTieSwapsWitness ==
    /\ op = "remove_min"
    /\ ret.kind = "pair"
    /\ size = 3
    /\ key[body[0]] = 2 /\ key[body[1]] = 2 /\ key[body[2]] = 2
    /\ ret.key = 1
    /\ value[body[1]] < value[body[2]]
    /\ value[body[2]] < value[body[0]]

\* floor(log2(n)) for n >= 1, and the level of slot i in the tree
RECURSIVE Log2(_)
Log2(n) == IF n <= 1 THEN 0 ELSE 1 + Log2(n \div 2)
Level(i) == Log2(i + 1)

\* the element in slot i of H rises to the slot bubbleup takes it to and
\* falls from there to the slot to where the call leaves it: together at
\* most n swaps, one per level
AtMost(H, i, to, n) ==
    \A mid \in {bubbleup(H, i).index[H.body[i]]} :
       (Level(i) - Level(mid)) + (Level(to) - Level(mid)) <= n

\* the queue in which remove(element) starts to bubble: the last element
\* is in the slot of the removed one
RemoveStart(element) ==
    LET idx == index[element]
        H1 == [Heap EXCEPT !.body = ListPop([@ EXCEPT ![idx] = body[size - 1]], size),
                           !.size = @ - 1]
    IN  [Forget(H1, element) EXCEPT !.index[body[size - 1]] = idx]

\* the call that leads to the next state makes at most n swaps
SwapsAtMost(n) ==
    CASE op' = "add" -> Level(size) - Level(index'[ret'.h]) <= n
      [] op' = "update_key" ->
            AtMost([Heap EXCEPT !.key[arg'.h] = arg'.k], index[arg'.h], index'[arg'.h], n)
      [] op' = "remove_min" /\ size' > 0 -> Level(index'[body[size - 1]]) <= n
      [] op' = "remove" /\ size' > 0 /\ index[arg'.h] < size' ->
            AtMost(RemoveStart(arg'.h), index[arg'.h], index'[body[size - 1]], n)
      [] OTHER -> TRUE

\* C40 as stated: a call of add, remove_min, update_key or remove on a
\* queue holding n >= 1 elements makes at most floor(log2(n)) swaps.
LogSwaps ==
    [][size >= 1 => SwapsAtMost(Log2(size))]_vars

\* C40 as amended: the same with n the number of elements the queue holds
\* while it bubbles, which for add counts the element added.
LogSwapsOfBubbled ==
    [][(size >= 1 \/ size' >= 1) =>
          SwapsAtMost(Log2(IF op' = "add" THEN size' ELSE size))]_vars

\* add returned an element that has risen from slot 3 to the root of a
\* queue of four: two swaps, floor(log2(4))
LogSwapsWitness ==
    /\ op = "add"
    /\ size = 4
    /\ ret.kind = "handle"
    /\ index[ret.h] = 0
    /\ key[ret.h] < key[body[1]]
    /\ key[ret.h] < key[body[3]]

\* =====================================================================
\* Properties of DirectedGraph.topological_sort
\* =====================================================================

\* the vertices that the edges of the graph lead to from the vertices of S
Successors(S) == UNION {DictKeys(structure[v]) : v \in S}

RECURSIVE Descendants(_, _)
Descendants(S, n) ==
    IF n = 0 THEN S
    ELSE Descendants(S \cup Successors(S), n - 1)

\* a directed cycle: a vertex that a path of one edge or more leads back to
HasCycle ==
    \E v \in Members :
       v \in Descendants(Successors({v}), Cardinality(Members))

\* l holds every vertex once, and x before y for every edge from x to y
TopologicalOrder(l) ==
    /\ Len(l) = Cardinality(Members)
    /\ {l[i] : i \in 1..Len(l)} = Members
    /\ \A i, j \in 1..Len(l) : l[j] \in DictKeys(structure[l[i]]) => i < j

\* C27: topological_sort returns None exactly when the graph has a directed
\* cycle and a topological order of all vertices otherwise; it terminates,
\* as every run of the loop body makes tsort one longer and tsort never
\* gets longer than the number of vertices.
TopologicalSort ==
    [][/\ tphase' = "done" =>
             /\ (ret' = None) <=> HasCycle
             /\ ~HasCycle => (ret'.kind = "list" /\ TopologicalOrder(ret'.items))
       /\ (tphase = "loop" /\ tphase' = "loop") =>
             /\ Len(tsort') = Len(tsort) + 1
             /\ Len(tsort') <= Cardinality(Members)]_vars

\* topological_sort has returned the order a, c, b of a graph where b comes
\* before c in the order the vertices were added in
TopologicalSortWitness ==
    /\ tphase = "done"
    /\ joined = {<<1, 3>>, <<3, 2>>, <<1, 2>>}
    /\ ret = List(<<1, 3, 2>>)

\* =====================================================================
\* Properties of HashMapLP
\* =====================================================================

\* C28: getitem, contains and delitem called with a key that is not in the
\* map return None, False and None.
AbsentSignals ==
    [][(arg'.k \notin DOMAIN dict) =>
          /\ op' = "getitem" => ret' = None
          /\ op' = "contains" => ret' = Plain(FALSE)
          /\ op' = "delitem" => ret' = None]_vars

\* C29: getitem returns the value set last for a key of the reference
\* dictionary and None for any other key, and length returns the number of
\* keys of the reference dictionary.
RefinesDict ==
    /\ op = "getitem" =>
          ret = IF arg.k \in DOMAIN dict THEN Plain(dict[arg.k]) ELSE None
    /\ op = "length" => ret = Plain(Cardinality(DOMAIN dict))

\* =====================================================================
\* Properties of the singly linked lists
\* =====================================================================

\* C30: length() is the number of nodes that next leads to from first.
LengthCounts ==
    listlength(SLinkedList).ret = Plain(Len(Chain(SLinkedList, first)))

\* the node at the end of the list, 0 when no node is reachable from first
FinalNode ==
    LET c == Chain(SLinkedList, first)
    IN  IF Len(c) = 0 THEN 0 ELSE c[Len(c)]

\* C31: in the list of SLL2.py, last is the final node reachable from first,
\* None when the list is empty, and get_last() reports the element of that
\* node.
LastIsFinal ==
    tailed =>
       /\ lastnode = FinalNode
       /\ get_last(SLinkedList).ret =
             IF FinalNode = 0 THEN None ELSE Plain(node[FinalNode].element)

\* =====================================================================
\* Properties of QueueV2
\* =====================================================================

\* C32: dequeue returns the item enqueued longest ago that was not dequeued
\* yet, None when there is none, and length() is the number of items
\* enqueued and not dequeued.
FifoOrder ==
    [][/\ op' = "dequeue" =>
             ret' = IF queued = <<>> THEN None ELSE Head(queued)
       /\ queuelength(Queue).ret' = Plain(Len(queued'))]_vars

\* dequeue has returned an item of a queue that has grown to 20 cells and
\* whose tail has wrapped round to the front of the array since
FifoOrderWitness ==
    /\ op = "dequeue"
    /\ ret # None
    /\ Len0(qbody) = 2 * InitialCells
    /\ qtail < qhead

\* =====================================================================
\* Properties of the binary search tree
\* =====================================================================

\* the elements at and below n, left subtree first
RECURSIVE InOrder(_)
InOrder(n) ==
    IF n = 0 THEN <<>>
    ELSE InOrder(tree[n].leftchild) \o <<tree[n].element>> \o InOrder(tree[n].rightchild)

\* C33: the in-order elements of the tree are strictly increasing, every
\* child's parent is the node it is a child of, and search(x) returns x if
\* x was added and not removed since and None otherwise.
ProperSearchTree ==
    /\ \A i \in 1..(Len(InOrder(Root)) - 1) : InOrder(Root)[i] < InOrder(Root)[i + 1]
    /\ \A n \in DOMAIN tree :
          /\ tree[n].leftchild # 0 => tree[tree[n].leftchild].parent = n
          /\ tree[n].rightchild # 0 => tree[tree[n].rightchild].parent = n
    /\ op = "search" => ret = IF arg.k \in present THEN Plain(arg.k) ELSE None

====
